---- MODULE Spec2Model ----
(***************************************************************************)
(* Signal-computation engine of the futures position analysis system:      *)
(* PowerChangeStrategy, SpiderWebStrategy, process_position_data,          *)
(* analyze_all_positions and fetch_and_analyze                             *)
(* (futures_position_analysis.py), analyze_retail_reverse_strategy with    *)
(* the loop that applies it, get_analysis_results_optimized and            *)
(* analyze_term_structure_with_prices (app_streamlit*.py).                 *)
(*                                                                         *)
(* Signals: 看多 = "Bullish", 看空 = "Bearish", 中性 = "Neutral",          *)
(* 错误 = "Error".                                                         *)
(***************************************************************************)
EXTENDS Integers, Naturals, Sequences, FiniteSets, TLC

VARIABLES data, pcOut, df, sw, rdf, rr,
          results, retail_pos, retail_long_signals, retail_short_signals,
          raw_df, processed_data, exchange_files, orch_pos,
          price_data, structure_results,
          fetched, completed, successful_exchanges, par_return,
          data_dir, call, calls

\* the variables of each component
powerVars  == <<data, pcOut>>
spiderVars == <<df, sw>>
retailVars == <<rdf, rr>>
batchVars  == <<results, retail_pos, retail_long_signals, retail_short_signals>>
normVars   == <<raw_df, processed_data>>
orchVars   == <<exchange_files, orch_pos>>
termVars   == <<price_data, structure_results>>
parVars    == <<fetched, completed, successful_exchanges, par_return>>
fetchVars  == <<data_dir, call, calls>>

vars == <<powerVars, spiderVars, retailVars, batchVars, normVars, orchVars,
          termVars, parVars, fetchVars>>

Pending == [signal |-> "Pending"]

\* the value the call returned
Returned(list) == [results |-> list]

\* the key is absent from the dict
Absent == [k |-> "absent"]

\* a component that is not called: nothing was passed to it and it holds
\* no result
PowerIdle ==
    /\ data = [total_long_chg |-> Absent, total_short_chg |-> Absent]
    /\ pcOut = Pending

SpiderIdle == df = Absent /\ sw = Pending

RetailIdle == rdf = <<>> /\ rr = Pending

BatchIdle ==
    /\ results = <<>>
    /\ retail_pos = 0
    /\ retail_long_signals = <<>>
    /\ retail_short_signals = <<>>

NormIdle == raw_df = Absent /\ processed_data = Pending

OrchIdle == exchange_files = <<>> /\ orch_pos = <<1, 0>>

TermIdle == price_data = Absent /\ structure_results = Pending

ParIdle ==
    /\ fetched = <<>>
    /\ completed = {}
    /\ successful_exchanges = 0
    /\ par_return = Pending

FetchIdle == data_dir = <<>> /\ call = Absent /\ calls = 0

(***************************************************************************)
(* float64 arithmetic of the pandas columns.  A finite non-zero float is   *)
(* s * m * 2^e with m a 53-bit significand (a sequence of bits, most       *)
(* significant first, m[1] = 1); every operation rounds its exact result   *)
(* to nearest, ties to even.  The sign of zero is not modelled (no         *)
(* comparison of the strategies distinguishes -0.0 from 0.0).              *)
(***************************************************************************)

\* significand width of IEEE-754 binary64
MantBits == 53

\* extra quotient bits produced by a division before rounding: enough for
\* the quotient of integers below 2^10 to have MantBits + 2 significant bits
GuardBits == MantBits + 11

FNaN == [k |-> "nan"]
FZero == [k |-> "zero"]
FInf(s) == [k |-> "inf", s |-> s]

Zeros(n) == [i \in 1..n |-> 0]

RECURSIVE NatBits(_)
\* binary digits of a natural number, most significant first
NatBits(n) == IF n = 0 THEN <<>> ELSE Append(NatBits(n \div 2), n % 2)

\* the number of leading zero bits of b
LeadZeros(b) ==
    LET ones == {i \in 1..Len(b) : b[i] = 1}
    IN  IF ones = {} THEN Len(b)
        ELSE (CHOOSE i \in ones : \A j \in ones : i <= j) - 1

Strip(b) == SubSeq(b, LeadZeros(b) + 1, Len(b))

PadL(b, n) == Zeros(n - Len(b)) \o b

\* a < b for two bit sequences of the same length
MagLess(a, b) ==
    \E i \in 1..Len(a) : a[i] < b[i] /\ \A j \in 1..(i - 1) : a[j] = b[j]

\* long arithmetic works on limbs of LimbBits bits
LimbBits == 12
LimbBase == 2 ^ LimbBits

RECURSIVE BitsNat(_)
\* the natural number with the given binary digits
BitsNat(b) ==
    IF Len(b) = 0 THEN 0 ELSE 2 * BitsNat(SubSeq(b, 1, Len(b) - 1)) + b[Len(b)]

\* the number of limbs that hold n bits
LimbCount(n) == (n + LimbBits - 1) \div LimbBits

\* the limbs of a bit sequence, most significant first
ToLimbs(b) ==
    LET L == LimbCount(Len(b))
        p == PadL(b, L * LimbBits)
    IN  [i \in 1..L |-> BitsNat(SubSeq(p, (i - 1) * LimbBits + 1, i * LimbBits))]

\* the bits of a sequence of limbs
FromLimbs(l) ==
    [i \in 1..(Len(l) * LimbBits) |->
        (l[((i - 1) \div LimbBits) + 1]
            \div 2 ^ (LimbBits - 1 - ((i - 1) % LimbBits))) % 2]

\* the last n bits of b
LastBits(b, n) == SubSeq(b, Len(b) - n + 1, Len(b))

RECURSIVE AddRec(_, _, _, _)
\* acc holds the low Len(acc) limbs of the sum, carry the carry into the next
AddRec(a, b, carry, acc) ==
    LET i == Len(a) - Len(acc)
    IN  IF i = 0 THEN <<carry>> \o acc
        ELSE LET t == a[i] + b[i] + carry
             IN  AddRec(a, b, t \div LimbBase, <<t % LimbBase>> \o acc)

\* a + b for two bit sequences of the same length n; the result has n+1 bits
AddMag(a, b) ==
    LastBits(FromLimbs(AddRec(ToLimbs(a), ToLimbs(b), 0, <<>>)), Len(a) + 1)

RECURSIVE SubRec(_, _, _, _)
SubRec(a, b, borrow, acc) ==
    LET i == Len(a) - Len(acc)
    IN  IF i = 0 THEN acc
        ELSE LET t == a[i] - b[i] - borrow
             IN  SubRec(a, b, IF t < 0 THEN 1 ELSE 0,
                        <<(t + LimbBase) % LimbBase>> \o acc)

\* a - b for two bit sequences of the same length with a >= b
SubMag(a, b) ==
    LastBits(FromLimbs(SubRec(ToLimbs(a), ToLimbs(b), 0, <<>>)), Len(a))

RECURSIVE DivRec(_, _, _, _)
\* acc holds the quotient of the first Len(acc) limbs of b, rem their remainder
DivRec(b, d, rem, acc) ==
    LET i == Len(acc) + 1
    IN  IF i > Len(b) THEN [q |-> acc, r |-> rem]
        ELSE LET t == LimbBase * rem + b[i]
             IN  DivRec(b, d, t % d, Append(acc, t \div d))

\* quotient and remainder of the bit sequence b by the positive integer d
DivMag(b, d) ==
    LET res == DivRec(ToLimbs(b), d, 0, <<>>)
    IN  [q |-> LastBits(FromLimbs(res.q), Len(b)), r |-> res.r]

\* the float nearest to s * bits * 2^exp (plus a non-zero fraction of the
\* last bit when sticky), ties to even
RoundNorm(s, bits, exp, sticky) ==
    LET b == Strip(bits)
        L == Len(b)
    IN  IF L = 0 THEN FZero
        ELSE IF L <= MantBits
            THEN [k |-> "fin", s |-> s, m |-> b \o Zeros(MantBits - L),
                  e |-> exp - (MantBits - L)]
        ELSE LET head  == SubSeq(b, 1, MantBits)
                 guard == b[MantBits + 1]
                 rest  == sticky \/ \E i \in (MantBits + 2)..L : b[i] = 1
                 up    == guard = 1 /\ (rest \/ head[MantBits] = 1)
                 inc   == AddMag(head, Zeros(MantBits - 1) \o <<1>>)
                 e0    == exp + (L - MantBits)
             IN  IF ~up THEN [k |-> "fin", s |-> s, m |-> head, e |-> e0]
                 ELSE IF inc[1] = 1
                     THEN [k |-> "fin", s |-> s, m |-> SubSeq(inc, 1, MantBits),
                           e |-> e0 + 1]
                 ELSE [k |-> "fin", s |-> s, m |-> Tail(inc), e |-> e0]

Sign(n) == IF n < 0 THEN -1 ELSE 1

\* the float64 value of an integer
FromInt(n) == RoundNorm(Sign(n), NatBits(Sign(n) * n), 0, FALSE)

\* a / b for two integer-valued floats: x/0 is +-inf, 0/0 is NaN
FDivInts(a, b) ==
    IF b = 0 THEN (IF a = 0 THEN FNaN ELSE FInf(Sign(a)))
    ELSE IF a = 0 THEN FZero
    ELSE LET d == DivMag(NatBits(Sign(a) * a) \o Zeros(GuardBits), Sign(b) * b)
         IN  RoundNorm(Sign(a) * Sign(b), d.q, -GuardBits, d.r # 0)

\* x / n for a float x and a positive count n
FDivCount(x, n) ==
    IF n = 0 THEN (IF x.k \in {"zero", "nan"} THEN FNaN ELSE FInf(x.s))
    ELSE IF x.k # "fin" THEN x
    ELSE LET d == DivMag(x.m \o Zeros(GuardBits), n)
         IN  RoundNorm(x.s, d.q, x.e - GuardBits, d.r # 0)

RECURSIVE MulRec(_, _, _, _)
MulRec(b, n, carry, acc) ==
    LET i == Len(b) - Len(acc)
    IN  IF i = 0 THEN <<carry>> \o acc
        ELSE LET t == b[i] * n + carry
             IN  MulRec(b, n, t \div LimbBase, <<t % LimbBase>> \o acc)

\* n * x for a natural number n below 2^10 and a float x
FMulNat(n, x) ==
    IF x.k # "fin" THEN x
    ELSE IF n = 0 THEN FZero
    ELSE RoundNorm(x.s, FromLimbs(MulRec(ToLimbs(x.m), n, 0, <<>>)), x.e, FALSE)

\* int(x) for a float x >= 0 below 2^31: the fraction is cut off
FTrunc(x) ==
    IF x.k # "fin" THEN 0
    ELSE IF x.e >= 0 THEN BitsNat(x.m \o Zeros(x.e))
    ELSE IF MantBits + x.e <= 0 THEN 0
    ELSE BitsNat(SubSeq(x.m, 1, MantBits + x.e))

FNeg(x) == IF x.k \in {"fin", "inf"} THEN [x EXCEPT !.s = -x.s] ELSE x

\* abs() left out
FAbs_Signed(x) == x

\* abs(x)
FAbs(x) == IF x.k \in {"fin", "inf"} THEN [x EXCEPT !.s = 1] ELSE x

Min(a, b) == IF a < b THEN a ELSE b
Max(a, b) == IF a < b THEN b ELSE a

\* x + y
FAdd(x, y) ==
    IF x.k = "nan" \/ y.k = "nan" THEN FNaN
    ELSE IF x.k = "inf" THEN (IF y.k = "inf" /\ y.s # x.s THEN FNaN ELSE x)
    ELSE IF y.k = "inf" THEN y
    ELSE IF x.k = "zero" THEN y
    ELSE IF y.k = "zero" THEN x
    ELSE LET e0 == Min(x.e, y.e)
             ax == x.m \o Zeros(x.e - e0)
             ay == y.m \o Zeros(y.e - e0)
             n  == Max(Len(ax), Len(ay))
             px == PadL(ax, n)
             py == PadL(ay, n)
         IN  IF x.s = y.s THEN RoundNorm(x.s, AddMag(px, py), e0, FALSE)
             ELSE IF MagLess(px, py) THEN RoundNorm(y.s, SubMag(py, px), e0, FALSE)
             ELSE RoundNorm(x.s, SubMag(px, py), e0, FALSE)

FSub(x, y) == FAdd(x, FNeg(y))

\* x >= 0 in place of x > 0
FPos_OrZero(x) == x.k = "zero" \/ (x.k \in {"fin", "inf"} /\ x.s = 1)

\* x > 0 and x < 0 (False for NaN)
FPos(x) == x.k \in {"fin", "inf"} /\ x.s = 1
FNegative(x) == x.k \in {"fin", "inf"} /\ x.s = -1

\* -1, 0, 1 for a negative, zero, positive float
FSgn(x) == IF x.k = "zero" THEN 0 ELSE x.s

\* |x| < |y| for two non-zero floats, neither NaN
AbsLess(x, y) ==
    IF x.k = "inf" THEN FALSE
    ELSE IF y.k = "inf" THEN TRUE
    ELSE x.e < y.e \/ (x.e = y.e /\ MagLess(x.m, y.m))

\* x < y (False when either is NaN)
FLess(x, y) ==
    /\ x.k # "nan" /\ y.k # "nan"
    /\ \/ FSgn(x) < FSgn(y)
       \/ FSgn(x) = 1 /\ FSgn(y) = 1 /\ AbsLess(x, y)
       \/ FSgn(x) = -1 /\ FSgn(y) = -1 /\ AbsLess(y, x)

(***************************************************************************)
(* PowerChangeStrategy                                                     *)
(***************************************************************************)

\* bound on the magnitude of an aggregate position change
MaxChg == 2

\* what a caller can store under a key of the data dict: a number, NaN,
\* a string that float() parses, a string it does not parse, or None
DictValues ==
    [k : {"num"}, v : -MaxChg..MaxChg]
        \cup [k : {"numstr"}, v : {-1, 1}]
        \cup {[k |-> "nan"], [k |-> "badstr"], [k |-> "none"]}

\* float(data.get(key, 0)): an absent key counts as 0
ToFloat_GetDefault(x) ==
    CASE x.k = "num"    -> [ok |-> TRUE, k |-> "num", v |-> x.v]
      [] x.k = "numstr" -> [ok |-> TRUE, k |-> "num", v |-> x.v]
      [] x.k = "nan"    -> [ok |-> TRUE, k |-> "nan", v |-> 0]
      [] x.k = "absent" -> [ok |-> TRUE, k |-> "num", v |-> 0]
      [] x.k = "badstr" -> [ok |-> FALSE, exc |-> "ValueError"]
      [] x.k = "none"   -> [ok |-> FALSE, exc |-> "TypeError"]

\* float(data[key]): the number itself, the parsed number of a numeric
\* string, NaN; KeyError for an absent key, ValueError for an unparsable
\* string, TypeError for None
ToFloat(x) ==
    CASE x.k = "num"    -> [ok |-> TRUE, k |-> "num", v |-> x.v]
      [] x.k = "numstr" -> [ok |-> TRUE, k |-> "num", v |-> x.v]
      [] x.k = "nan"    -> [ok |-> TRUE, k |-> "nan", v |-> 0]
      [] x.k = "absent" -> [ok |-> FALSE, exc |-> "KeyError"]
      [] x.k = "badstr" -> [ok |-> FALSE, exc |-> "ValueError"]
      [] x.k = "none"   -> [ok |-> FALSE, exc |-> "TypeError"]

\* comparisons of Python floats with 0: every comparison with NaN is False
GtZero(f) == f.k = "num" /\ f.v > 0
LtZero(f) == f.k = "num" /\ f.v < 0

Abs(n) == IF n < 0 THEN -n ELSE n

\* the except branch of PowerChangeStrategy.analyze
PowerChangeError(exc) ==
    [signal |-> "Error", strength |-> 0, fault |-> exc]

\* analyze with the strength of a bullish signal taken from the short side
PowerChangeAnalyze_BullStrength(d) ==
    LET long_chg  == ToFloat(d.total_long_chg)
        short_chg == ToFloat(d.total_short_chg)
    IN  IF ~long_chg.ok THEN PowerChangeError(long_chg.exc)
        ELSE IF ~short_chg.ok THEN PowerChangeError(short_chg.exc)
        ELSE IF GtZero(long_chg) /\ LtZero(short_chg)
            THEN [signal |-> "Bullish", strength |-> Abs(short_chg.v), fault |-> "none"]
        ELSE IF LtZero(long_chg) /\ GtZero(short_chg)
            THEN [signal |-> "Bearish", strength |-> Abs(short_chg.v), fault |-> "none"]
        ELSE [signal |-> "Neutral", strength |-> 0, fault |-> "none"]

\* analyze with the strength of a bearish signal taken from the long side
PowerChangeAnalyze_BearStrength(d) ==
    LET long_chg  == ToFloat(d.total_long_chg)
        short_chg == ToFloat(d.total_short_chg)
    IN  IF ~long_chg.ok THEN PowerChangeError(long_chg.exc)
        ELSE IF ~short_chg.ok THEN PowerChangeError(short_chg.exc)
        ELSE IF GtZero(long_chg) /\ LtZero(short_chg)
            THEN [signal |-> "Bullish", strength |-> Abs(long_chg.v), fault |-> "none"]
        ELSE IF LtZero(long_chg) /\ GtZero(short_chg)
            THEN [signal |-> "Bearish", strength |-> Abs(long_chg.v), fault |-> "none"]
        ELSE [signal |-> "Neutral", strength |-> 0, fault |-> "none"]

\* analyze with long_chg >= 0 in place of long_chg > 0
PowerChangeAnalyze_BullGe(d) ==
    LET long_chg  == ToFloat(d.total_long_chg)
        short_chg == ToFloat(d.total_short_chg)
    IN  IF ~long_chg.ok THEN PowerChangeError(long_chg.exc)
        ELSE IF ~short_chg.ok THEN PowerChangeError(short_chg.exc)
        ELSE IF ~LtZero(long_chg) /\ long_chg.k = "num" /\ LtZero(short_chg)
            THEN [signal |-> "Bullish", strength |-> Abs(long_chg.v), fault |-> "none"]
        ELSE IF LtZero(long_chg) /\ GtZero(short_chg)
            THEN [signal |-> "Bearish", strength |-> Abs(short_chg.v), fault |-> "none"]
        ELSE [signal |-> "Neutral", strength |-> 0, fault |-> "none"]

\* PowerChangeStrategy.analyze(data)
PowerChangeAnalyze(d) ==
    LET long_chg  == ToFloat(d.total_long_chg)
        short_chg == ToFloat(d.total_short_chg)
    IN  IF ~long_chg.ok THEN PowerChangeError(long_chg.exc)
        ELSE IF ~short_chg.ok THEN PowerChangeError(short_chg.exc)
        ELSE IF GtZero(long_chg) /\ LtZero(short_chg)
            THEN [signal |-> "Bullish", strength |-> Abs(long_chg.v), fault |-> "none"]
        ELSE IF LtZero(long_chg) /\ GtZero(short_chg)
            THEN [signal |-> "Bearish", strength |-> Abs(short_chg.v), fault |-> "none"]
        ELSE [signal |-> "Neutral", strength |-> 0, fault |-> "none"]

InitPower ==
    /\ data \in [total_long_chg : DictValues \cup {Absent},
                 total_short_chg : DictValues \cup {Absent}]
    /\ pcOut = Pending
    /\ SpiderIdle /\ RetailIdle /\ BatchIdle
    /\ NormIdle /\ OrchIdle /\ TermIdle
    /\ ParIdle /\ FetchIdle

\* one call strategy.analyze(processed_data) of the power-change strategy
PowerChange ==
    /\ pcOut = Pending
    /\ pcOut' = PowerChangeAnalyze(data)
    /\ UNCHANGED <<data, spiderVars, retailVars, batchVars, normVars, orchVars,
                   termVars, parVars, fetchVars>>

NextPower == PowerChange

SpecPower == InitPower /\ [][NextPower]_vars

(***************************************************************************)
(* SpiderWebStrategy                                                       *)
(***************************************************************************)

\* cells of a numeric column after pd.to_numeric: a number or NaN (missing)
NaN == [k |-> "nan"]
Num(n) == [k |-> "num", v |-> n]

\* Series.notna()
NotNa(c) == c.k # "nan"

\* bound on the number of seats of a table
MaxRows == 4

Seat(vol, long, short) ==
    [vol |-> vol, long_open_interest |-> long, short_open_interest |-> short]

\* the seats a table is built from: a seat without volume, seats that did
\* not trade (with and without positions) and two seats that traded
SeatShapes ==
    { Seat(NaN, Num(2), Num(3)),
      Seat(Num(0), Num(2), Num(3)),
      Seat(Num(0), Num(0), Num(0)),
      Seat(Num(1), Num(2), Num(3)),
      Seat(Num(1), Num(3), Num(0)) }

SpiderTables == UNION {[1..n -> SeatShapes] : n \in 0..MaxRows}

\* data['raw_data'] holding the table t
RawData(t) == [k |-> "table", rows |-> t]

\* the rows of valid_seats, as indices into the table, in table order
ValidSeats(t) ==
    SelectSeq([i \in 1..Len(t) |-> i],
              LAMBDA i : /\ NotNa(t[i].vol)
                         /\ NotNa(t[i].long_open_interest)
                         /\ NotNa(t[i].short_open_interest))

\* stat = (long_open_interest + short_open_interest) / vol
Stat(r) == FDivInts(r.long_open_interest.v + r.short_open_interest.v, r.vol.v)

\* (long_open_interest - short_open_interest) / (long_open_interest + short_open_interest)
Skew(r) == FDivInts(r.long_open_interest.v - r.short_open_interest.v,
                    r.long_open_interest.v + r.short_open_interest.v)

\* the seats that pass the notna filter
ValidShapes ==
    {r \in SeatShapes : /\ NotNa(r.vol)
                        /\ NotNa(r.long_open_interest)
                        /\ NotNa(r.short_open_interest)}

\* the columns valid_seats['stat'] and its['its'] / uts['uts'], by seat
StatColumn == [r \in ValidShapes |-> Stat(r)]
SkewColumn == [r \in ValidShapes |-> Skew(r)]

Range(f) == {f[i] : i \in DOMAIN f}

\* x is placed before y by sort_values(ascending=False): larger first, NaN last
Before(x, y) == (x.k # "nan" /\ y.k = "nan") \/ FLess(y, x)

RECURSIVE SortedOrders(_, _)
\* the orders sort_values('stat', ascending=False) can return for the rows S
\* of table t: the default sort is not stable, so rows of equal stat come in
\* any order
SortedOrders(t, S) ==
    IF S = {} THEN {<<>>}
    ELSE UNION { {<<x>> \o p : p \in SortedOrders(t, S \ {x})} :
                 x \in {y \in S : \A z \in S :
                            ~Before(StatColumn[t[z]], StatColumn[t[y]])} }

\* int(len(sorted_seats) * 0.5)
CutoffIndex_Half(n) == FTrunc(FMulNat(n, FDivInts(1, 2)))

\* int(len(sorted_seats) * 0.4)
CutoffIndex(n) == FTrunc(FMulNat(n, FDivInts(2, 5)))

RECURSIVE SumSkipNa(_)
\* the sum of a column, left to right, NaN counted as 0
SumSkipNa(xs) ==
    IF Len(xs) = 0 THEN FZero
    ELSE LET last == xs[Len(xs)]
         IN  FAdd(SumSkipNa(SubSeq(xs, 1, Len(xs) - 1)),
                  IF last.k = "nan" THEN FZero ELSE last)

\* Series.mean(): the sum over the count of the values that are not NaN,
\* NaN when there is none
Mean(xs) ==
    LET count == Cardinality({i \in 1..Len(xs) : xs[i].k # "nan"})
    IN  IF count = 0 THEN FNaN ELSE FDivCount(SumSkipNa(xs), count)

\* what analyze returns (signal, strength, the MSD printed in the reason)
\* together with its locals valid_seats, its and uts
SpiderOut(signal, strength, msd, valid, its, uts) ==
    [signal |-> signal, strength |-> strength, msd |-> msd,
     valid_seats |-> valid, its |-> its, uts |-> uts]

\* no MSD is printed in the reason
NoMsd == [k |-> "none"]

\* SpiderWebStrategy.analyze(data), the table found and sorted_seats = order
SpiderWebSignal(t, order) ==
    LET valid_seats  == ValidSeats(t)
        n            == Len(valid_seats)
        cutoff_index == CutoffIndex(n)
        its          == SubSeq(order, 1, cutoff_index)
        uts          == SubSeq(order, cutoff_index + 1, n)
        msd          == FSub(Mean([i \in 1..Len(its) |-> SkewColumn[t[its[i]]]]),
                             Mean([i \in 1..Len(uts) |-> SkewColumn[t[uts[i]]]]))
    IN  IF n = 0
            THEN SpiderOut("Neutral", FZero, NoMsd, <<>>, <<>>, <<>>)
        ELSE IF FPos(msd)
            THEN SpiderOut("Bullish", FAbs(msd), msd, valid_seats, its, uts)
        ELSE IF FNegative(msd)
            THEN SpiderOut("Bearish", FAbs(msd), msd, valid_seats, its, uts)
        ELSE SpiderOut("Neutral", FZero, msd, valid_seats, its, uts)

\* the except branch of SpiderWebStrategy.analyze
SpiderWebError == SpiderOut("Error", FZero, NoMsd, <<>>, <<>>, <<>>)

InitSpider ==
    /\ df \in {Absent} \cup {RawData(t) : t \in SpiderTables}
    /\ sw = Pending
    /\ PowerIdle /\ RetailIdle /\ BatchIdle
    /\ NormIdle /\ OrchIdle /\ TermIdle
    /\ ParIdle /\ FetchIdle

\* one call strategy.analyze(processed_data) of the spider-web strategy;
\* data['raw_data'] raises KeyError when the key is absent
SpiderWeb ==
    /\ sw = Pending
    /\ IF df.k = "absent" THEN sw' = SpiderWebError
       ELSE \E order \in SortedOrders(df.rows, Range(ValidSeats(df.rows))) :
                sw' = SpiderWebSignal(df.rows, order)
    /\ UNCHANGED <<df, powerVars, retailVars, batchVars, normVars, orchVars,
                   termVars, parVars, fetchVars>>

NextSpider == SpiderWeb

SpecSpider == InitSpider /\ [][NextSpider]_vars

(***************************************************************************)
(* analyze_retail_reverse_strategy                                         *)
(***************************************************************************)

\* retail_seats = ["东方财富", "平安期货", "徽商期货"]
retail_seats == <<"EastMoney", "PingAn", "Huishang">>

\* bound on the number of rows of a table given to the retail strategy
MaxRetailRows == 2

\* one side of a row: the member and its open interest and change
Side(name, oi, chg) == [name |-> name, oi |-> oi, chg |-> chg]

\* a cell that holds text where a number is expected (the table was not
\* passed through pd.to_numeric)
Str == [k |-> "str"]

\* the sides a row is built from: a retail seat that adds, one that holds a
\* position without change, one that reduces, one whose position is
\* missing, one whose position is text, and a member that is not a retail
\* seat
Sides ==
    { Side("EastMoney", Num(2), Num(1)),
      Side("PingAn", Num(3), Num(0)),
      Side("Huishang", Num(1), Num(-1)),
      Side("EastMoney", NaN, Num(1)),
      Side("Huishang", Str, Num(1)),
      Side("CITIC", Num(4), Num(-1)) }

Row(l, s) ==
    [long_party_name |-> l.name, long_open_interest |-> l.oi,
     long_open_interest_chg |-> l.chg,
     short_party_name |-> s.name, short_open_interest |-> s.oi,
     short_open_interest_chg |-> s.chg]

RetailRows == {Row(l, s) : l \in Sides, s \in Sides}

RetailTables == UNION {[1..n -> RetailRows] : n \in 0..MaxRetailRows}

\* x if pd.notna(x) else 0
NotNaOrZero(c) == IF NotNa(c) THEN c.v ELSE 0

\* seat_stats before the first row
SeatStatsInit ==
    [name \in Range(retail_seats) |->
        [long_chg |-> 0, short_chg |-> 0, long_pos |-> 0, short_pos |-> 0]]

\* the loop body raises TypeError on this row: a number += text, for a side
\* that belongs to a retail seat
RowRaises(row) ==
    \/ /\ row.long_party_name \in Range(retail_seats)
       /\ Str \in {row.long_open_interest_chg, row.long_open_interest}
    \/ /\ row.short_party_name \in Range(retail_seats)
       /\ Str \in {row.short_open_interest_chg, row.short_open_interest}

\* the body of the loop over df.iterrows(), for a row that does not raise
AddRow(stats, row) ==
    LET s1 == IF row.long_party_name \in Range(retail_seats)
              THEN [stats EXCEPT
                      ![row.long_party_name].long_chg =
                          @ + NotNaOrZero(row.long_open_interest_chg),
                      ![row.long_party_name].long_pos =
                          @ + NotNaOrZero(row.long_open_interest)]
              ELSE stats
    IN  IF row.short_party_name \in Range(retail_seats)
        THEN [s1 EXCEPT
                ![row.short_party_name].short_chg =
                    @ + NotNaOrZero(row.short_open_interest_chg),
                ![row.short_party_name].short_pos =
                    @ + NotNaOrZero(row.short_open_interest)]
        ELSE s1

RECURSIVE SeatStats(_)
\* seat_stats after the loop over the rows of t
SeatStats(t) ==
    IF Len(t) = 0 THEN SeatStatsInit
    ELSE AddRow(SeatStats(SubSeq(t, 1, Len(t) - 1)), t[Len(t)])

\* seat_details: the retail seats with a long or short change, in the
\* order of retail_seats
SeatDetails(stats) ==
    LET changed == SelectSeq(retail_seats,
                       LAMBDA seat : stats[seat].long_chg # 0 \/ stats[seat].short_chg # 0)
    IN  [i \in 1..Len(changed) |->
            [seat_name |-> changed[i],
             long_chg  |-> stats[changed[i]].long_chg,
             short_chg |-> stats[changed[i]].short_chg,
             long_pos  |-> stats[changed[i]].long_pos,
             short_pos |-> stats[changed[i]].short_pos]]

RECURSIVE SumInts(_)
\* sum([...]) of a list of numbers
SumInts(xs) ==
    IF Len(xs) = 0 THEN 0 ELSE SumInts(SubSeq(xs, 1, Len(xs) - 1)) + xs[Len(xs)]

\* df[column].sum(): NaN is skipped
ColumnSum(cells) == SumInts([i \in 1..Len(cells) |-> NotNaOrZero(cells[i])])

RetailOut(signal, strength, details) ==
    [signal |-> signal, strength |-> strength, seat_details |-> details]

\* the except branch returning Neutral in place of Error
RetailError_Neutral == RetailOut("Neutral", FZero, <<>>)

\* the except branch of analyze_retail_reverse_strategy
RetailError == RetailOut("Error", FZero, <<>>)

\* the signal with the first test reduced to total_long_chg > 0
RetailDirection_LongOnly(total_long_chg, total_short_chg) ==
    IF total_long_chg > 0 THEN "Bearish"
    ELSE IF total_short_chg > 0 /\ total_long_chg <= 0 THEN "Bullish"
    ELSE "Neutral"

\* the if / elif / else over the two totals of change
RetailDirection(total_long_chg, total_short_chg) ==
    IF total_long_chg > 0 /\ total_short_chg <= 0 THEN "Bearish"
    ELSE IF total_short_chg > 0 /\ total_long_chg <= 0 THEN "Bullish"
    ELSE "Neutral"

\* the ratio taken without the test of the denominator
RetailRatio_Unguarded(pos, df_total) == FDivInts(pos, df_total)

\* retail_ratio = pos / df_total if df_total > 0 else 0
RetailRatio(pos, df_total) ==
    IF df_total > 0 THEN FDivInts(pos, df_total) ELSE FZero

\* analyze_retail_reverse_strategy(df)
RetailReverse(t) ==
    IF \E i \in 1..Len(t) : RowRaises(t[i]) THEN RetailError
    ELSE
    LET seat_details    == SeatDetails(SeatStats(t))
        col(f(_))       == [i \in 1..Len(seat_details) |-> f(seat_details[i])]
        total_long_chg  == SumInts(col(LAMBDA seat : seat.long_chg))
        total_short_chg == SumInts(col(LAMBDA seat : seat.short_chg))
        total_long_pos  == SumInts(col(LAMBDA seat : seat.long_pos))
        total_short_pos == SumInts(col(LAMBDA seat : seat.short_pos))
        df_total_long   == ColumnSum([i \in 1..Len(t) |-> t[i].long_open_interest])
        df_total_short  == ColumnSum([i \in 1..Len(t) |-> t[i].short_open_interest])
        signal          == RetailDirection(total_long_chg, total_short_chg)
    IN  IF Len(seat_details) = 0
            THEN RetailOut("Neutral", FZero, <<>>)
        ELSE IF signal = "Bearish"
            THEN RetailOut("Bearish", RetailRatio(total_long_pos, df_total_long),
                           seat_details)
        ELSE IF signal = "Bullish"
            THEN RetailOut("Bullish", RetailRatio(total_short_pos, df_total_short),
                           seat_details)
        ELSE RetailOut("Neutral", FZero, seat_details)

InitRetail ==
    /\ rdf \in RetailTables
    /\ rr = Pending
    /\ PowerIdle /\ SpiderIdle /\ BatchIdle
    /\ NormIdle /\ OrchIdle /\ TermIdle
    /\ ParIdle /\ FetchIdle

\* one call analyze_retail_reverse_strategy(df)
Retail ==
    /\ rr = Pending
    /\ rr' = RetailReverse(rdf)
    /\ UNCHANGED <<rdf, powerVars, spiderVars, batchVars, normVars, orchVars,
                   termVars, parVars, fetchVars>>

NextRetail == Retail

SpecRetail == InitRetail /\ [][NextRetail]_vars

(***************************************************************************)
(* The three strategies on one contract, called in the order of the       *)
(* program: analyze_all_positions calls the power-change and then the      *)
(* spider-web strategy, the dashboard then calls the retail strategy.  One *)
(* of the three is handed an input of its own; the other two are called on *)
(* the input of a component that is not called: a dict without the         *)
(* aggregates, a dict without raw_data, an empty table.                    *)
(***************************************************************************)

InitSignals == InitPower \/ InitSpider \/ InitRetail

NextSignals ==
    \/ PowerChange
    \/ pcOut # Pending /\ SpiderWeb
    \/ sw # Pending /\ Retail

SpecSignals == InitSignals /\ [][NextSignals]_vars

(***************************************************************************)
(* The loop of the dashboard that applies analyze_retail_reverse_strategy  *)
(* to every contract of results                                            *)
(***************************************************************************)

\* bound on the number of contracts of results
MaxContracts == 2

\* the sides the rows of a batch are built from
BatchSides ==
    { Side("EastMoney", Num(2), Num(1)),
      Side("Huishang", Str, Num(1)),
      Side("CITIC", Num(4), Num(-1)) }

\* the tables of a batch: empty or of one row
BatchTables == {<<>>} \cup {<<Row(l, s)>> : l \in BatchSides, s \in BatchSides}

\* the value of results under one contract, with or without 'raw_data'
BatchEntries ==
    {[raw_data |-> Absent]} \cup {[raw_data |-> RawData(t)] : t \in BatchTables}

\* results as the loop receives it: the contracts 1..n in the order of the
\* dict
Batches == UNION {[1..n -> BatchEntries] : n \in 0..MaxContracts}

\* the dict appended to retail_long_signals or retail_short_signals
SignalEntry(contract, out) ==
    [contract |-> contract, strength |-> out.strength,
     seat_details |-> out.seat_details]

InitRetailBatch ==
    /\ results \in Batches
    /\ retail_pos = 0
    /\ retail_long_signals = <<>>
    /\ retail_short_signals = <<>>
    /\ PowerIdle /\ SpiderIdle /\ RetailIdle
    /\ NormIdle /\ OrchIdle /\ TermIdle
    /\ ParIdle /\ FetchIdle

\* one iteration of "for contract, data in results.items()": the contract
\* is skipped without 'raw_data'; otherwise the strategy is called and a
\* Bullish or Bearish answer is appended to its list
RetailContract ==
    /\ retail_pos < Len(results)
    /\ LET contract == retail_pos + 1
           entry    == results[contract].raw_data
       IN  /\ retail_pos' = contract
           /\ IF entry.k = "absent"
                  THEN UNCHANGED <<retailVars, retail_long_signals,
                                   retail_short_signals>>
              ELSE LET out == RetailReverse(entry.rows)
                   IN  /\ rdf' = entry.rows
                       /\ rr' = out
                       /\ retail_long_signals' =
                              IF out.signal = "Bullish"
                              THEN Append(retail_long_signals,
                                          SignalEntry(contract, out))
                              ELSE retail_long_signals
                       /\ retail_short_signals' =
                              IF out.signal = "Bearish"
                              THEN Append(retail_short_signals,
                                          SignalEntry(contract, out))
                              ELSE retail_short_signals
    /\ UNCHANGED <<results, powerVars, spiderVars, normVars, orchVars,
                   termVars, parVars, fetchVars>>

NextRetailBatch == RetailContract

SpecRetailBatch == InitRetailBatch /\ [][NextRetailBatch]_vars

(***************************************************************************)
(* FuturesPositionAnalyzer.process_position_data                           *)
(*                                                                         *)
(* A DataFrame is its set of column names and its rows, each row a         *)
(* function from the column names to cells.  A cell of a numeric column is *)
(* an integer, an integer-valued float, NaN, or text (a sequence of        *)
(* characters).                                                            *)
(***************************************************************************)

\* the return value None
None == [k |-> "none"]

IntCell(n) == [k |-> "int", v |-> n]
FloatCell(n) == [k |-> "float", v |-> n]
Text(chars) == [k |-> "text", s |-> chars]

\* the columns renamed when the table carries the names of the Zhengzhou
\* exchange
ColumnRename ==
    "g_party_n" :> "long_party_name"
    @@ "open_inten" :> "long_open_interest"
    @@ "inten_intert" :> "long_open_interest_chg"
    @@ "t_party_n" :> "short_party_name"
    @@ "open_inten.1" :> "short_open_interest"
    @@ "inten_intert.1" :> "short_open_interest_chg"
    @@ "vol" :> "vol"

required_columns ==
    <<"long_party_name", "long_open_interest", "long_open_interest_chg",
      "short_party_name", "short_open_interest", "short_open_interest_chg",
      "vol">>

numeric_columns ==
    <<"long_open_interest", "long_open_interest_chg",
      "short_open_interest", "short_open_interest_chg", "vol">>

\* the name of column c after df.rename(columns=...)
NewName(c) == IF c \in DOMAIN ColumnRename THEN ColumnRename[c] ELSE c

\* df.rename(columns=...) when both g_party_n and t_party_n are columns,
\* df otherwise
Renamed(d) ==
    IF "g_party_n" \in d.columns /\ "t_party_n" \in d.columns
    THEN LET OldName(c2) == CHOOSE c \in d.columns : NewName(c) = c2
         IN  [columns |-> {NewName(c) : c \in d.columns},
              rows |-> [i \in 1..Len(d.rows) |->
                          [c2 \in {NewName(c) : c \in d.columns} |->
                              d.rows[i][OldName(c2)]]]]
    ELSE d

\* the number of members kept: df.head(20)
TopN == 20

\* rows.head(n) with no limit
HeadRows_All(rows, n) == rows

\* rows.head(n)
HeadRows(rows, n) == SubSeq(rows, 1, Min(n, Len(rows)))

DigitChars == <<"0", "1", "2", "3", "4", "5", "6", "7", "8", "9">>

RECURSIVE NatStr(_)
\* the decimal digits of a natural number
NatStr(n) ==
    IF n < 10 THEN <<DigitChars[n + 1]>>
    ELSE Append(NatStr(n \div 10), DigitChars[(n % 10) + 1])

\* str(x) of a cell: astype(str)
AsStr(c) ==
    CASE c.k = "text"  -> c.s
      [] c.k = "nan"   -> <<"n", "a", "n">>
      [] c.k = "int"   -> (IF c.v < 0 THEN <<"-">> ELSE <<>>) \o NatStr(Abs(c.v))
      [] c.k = "float" -> (IF c.v < 0 THEN <<"-">> ELSE <<>>) \o NatStr(Abs(c.v))
                              \o <<".", "0">>

\* .str.replace(',', '').str.replace(' ', '')
Cleaned(chars) ==
    SelectSeq(SelectSeq(chars, LAMBDA ch : ch # ","), LAMBDA ch : ch # " ")

IsDigit(ch) == \E i \in 1..10 : DigitChars[i] = ch

RECURSIVE DigitsNat(_)
\* the natural number with the given decimal digits
DigitsNat(chars) ==
    IF Len(chars) = 0 THEN 0
    ELSE 10 * DigitsNat(SubSeq(chars, 1, Len(chars) - 1))
         + ((CHOOSE i \in 1..10 : DigitChars[i] = chars[Len(chars)]) - 1)

\* pd.to_numeric(errors='coerce') with every unparsed text taken as 0
ToNumeric_ZeroFill(chars) ==
    LET signed == Len(chars) > 0 /\ chars[1] \in {"-", "+"}
        body   == IF signed THEN Tail(chars) ELSE chars
        dots   == {i \in 1..Len(body) : body[i] = "."}
        whole  == IF dots = {} THEN body
                  ELSE SubSeq(body, 1, (CHOOSE i \in dots : TRUE) - 1)
        frac   == IF dots = {} THEN <<>>
                  ELSE SubSeq(body, (CHOOSE i \in dots : TRUE) + 1, Len(body))
        parsed == /\ Cardinality(dots) <= 1
                  /\ Len(whole) + Len(frac) > 0
                  /\ \A i \in 1..Len(whole) : IsDigit(whole[i])
                  /\ \A i \in 1..Len(frac) : frac[i] = "0"
        value  == DigitsNat(whole)
    IN  IF ~parsed THEN Num(0)
        ELSE Num(IF signed /\ chars[1] = "-" THEN -value ELSE value)

\* pd.to_numeric(errors='coerce') of a string: an optional sign, digits and
\* an optional fraction (of zeros, in the cells of this model) is its
\* number; the empty string and every other text is NaN
ToNumeric(chars) ==
    LET signed == Len(chars) > 0 /\ chars[1] \in {"-", "+"}
        body   == IF signed THEN Tail(chars) ELSE chars
        dots   == {i \in 1..Len(body) : body[i] = "."}
        whole  == IF dots = {} THEN body
                  ELSE SubSeq(body, 1, (CHOOSE i \in dots : TRUE) - 1)
        frac   == IF dots = {} THEN <<>>
                  ELSE SubSeq(body, (CHOOSE i \in dots : TRUE) + 1, Len(body))
        parsed == /\ Cardinality(dots) <= 1
                  /\ Len(whole) + Len(frac) > 0
                  /\ \A i \in 1..Len(whole) : IsDigit(whole[i])
                  /\ \A i \in 1..Len(frac) : frac[i] = "0"
        value  == DigitsNat(whole)
    IN  IF ~parsed THEN NaN
        ELSE Num(IF signed /\ chars[1] = "-" THEN -value ELSE value)

\* one cell of a numeric column through lines 261-262: str, the two
\* replacements, 'nan' replaced by None, to_numeric
Coerce(c) ==
    LET cleaned == Cleaned(AsStr(c))
    IN  IF cleaned = <<"n", "a", "n">> THEN NaN ELSE ToNumeric(cleaned)

\* df[column] as the sequence of its cells
Column(rows, c) == [i \in 1..Len(rows) |-> rows[i][c]]

\* process_position_data(df)
ProcessPositionData(d) ==
    LET renamed == Renamed(d)
    IN  IF ~(Range(required_columns) \subseteq renamed.columns) THEN None
        ELSE
        LET kept == HeadRows(renamed.rows, TopN)
            rows == [i \in 1..Len(kept) |->
                       [c \in renamed.columns |->
                           IF c \in Range(numeric_columns)
                           THEN Coerce(kept[i][c]) ELSE kept[i][c]]]
        IN  [k |-> "dict",
             total_long      |-> ColumnSum(Column(rows, "long_open_interest")),
             total_short     |-> ColumnSum(Column(rows, "short_open_interest")),
             total_long_chg  |-> ColumnSum(Column(rows, "long_open_interest_chg")),
             total_short_chg |-> ColumnSum(Column(rows, "short_open_interest_chg")),
             raw_data        |-> RawData(rows)]

\* the required fields of a table, under their canonical names
Fields == Range(required_columns)

\* the column name a field has in a table of the Zhengzhou exchange
AliasOf(f) == CHOOSE c \in DOMAIN ColumnRename : ColumnRename[c] = f

\* how a table names its fields: each field under its canonical name,
\* under its alias, or not a column at all.  The tables of the model name
\* all fields one way, but for at most one field
Namings ==
    {nm \in [Fields -> {"canonical", "alias", "absent"}] :
        \E base \in {"canonical", "alias"} :
            Cardinality({f \in Fields : nm[f] # base}) <= 1}

\* the column that holds field f under naming nm
ColumnOf(nm, f) == IF nm[f] = "alias" THEN AliasOf(f) ELSE f

\* the DataFrame with the given rows (records over the required fields),
\* its columns named by nm
Frame(nm, rows) ==
    LET present == {f \in Fields : nm[f] # "absent"}
        FieldOf(c) == CHOOSE f \in present : ColumnOf(nm, f) = c
    IN  [columns |-> {ColumnOf(nm, f) : f \in present},
         rows |-> [i \in 1..Len(rows) |->
                     [c \in {ColumnOf(nm, f) : f \in present} |->
                         rows[i][FieldOf(c)]]]]

RawRow(lname, loi, lchg, sname, soi, schg, vol) ==
    [long_party_name |-> lname, long_open_interest |-> loi,
     long_open_interest_chg |-> lchg,
     short_party_name |-> sname, short_open_interest |-> soi,
     short_open_interest_chg |-> schg, vol |-> vol]

\* a member row of plain integers, the rows that lead a long table
FillerRow ==
    RawRow("Guotai", IntCell(1), IntCell(1), "Yongan", IntCell(1), IntCell(1),
           IntCell(1))

\* rows as the exchanges deliver them: text with thousands separators and
\* blanks, a text that is no number and an empty text; floats beside
\* missing values; integers
RawRows ==
    { RawRow("EastMoney", Text(<<"1", ",", "2">>), Text(<<"-", "2">>),
             "CITIC", Text(<<" ", "2", " ">>), Text(<<"x">>), Text(<<>>)),
      RawRow("PingAn", FloatCell(3), NaN, "Huishang", FloatCell(1),
             FloatCell(-1), NaN),
      RawRow("CITIC", IntCell(2), IntCell(1), "EastMoney", IntCell(3),
             IntCell(-1), IntCell(1)) }

\* bound on the number of rows that follow the filler rows of a table
MaxTail == 2

\* the row sequences of the model: 0..TopN filler rows, then up to MaxTail
\* rows of RawRows, so that tables reach beyond TopN rows
RawTables ==
    {[i \in 1..fill |-> FillerRow] \o tail :
        fill \in 0..TopN,
        tail \in UNION {[1..n -> RawRows] : n \in 0..MaxTail}}

InitNorm ==
    /\ raw_df \in {Frame(nm, rows) : nm \in Namings, rows \in RawTables}
    /\ processed_data = Pending
    /\ PowerIdle /\ SpiderIdle /\ RetailIdle /\ BatchIdle
    /\ OrchIdle /\ TermIdle
    /\ ParIdle /\ FetchIdle

\* one call process_position_data(df)
Process ==
    /\ processed_data = Pending
    /\ processed_data' = ProcessPositionData(raw_df)
    /\ UNCHANGED <<raw_df, powerVars, spiderVars, retailVars, batchVars,
                   orchVars, termVars,
                   parVars, fetchVars>>

NextNorm == Process

SpecNorm == InitNorm /\ [][NextNorm]_vars

(***************************************************************************)
(* FuturesPositionAnalyzer.analyze_all_positions                           *)
(*                                                                         *)
(* exchange_files[e] is what read_exchange_data returns for the e-th       *)
(* exchange: the tables of its sheets in the order of the dict, the empty  *)
(* sequence for {} (no file, or a file that cannot be read).  A contract   *)
(* is named by its place in the file; the key "<exchange>_<contract>" is   *)
(* the pair of the two names.                                              *)
(***************************************************************************)

\* self.exchanges.keys(): 郑商所, 中金所, 大商所, 上期所, 广期所
exchanges == <<"CZCE", "CFFEX", "DCE", "SHFE", "GFEX">>

\* every field under its canonical name, under its alias, and every field
\* but vol under its canonical name
CanonicalNames == [f \in Fields |-> "canonical"]
AliasNames == [f \in Fields |-> "alias"]
WithoutVol == [CanonicalNames EXCEPT !["vol"] = "absent"]

\* rows of traded seats, with their positions and changes
BullRow ==
    RawRow("CITIC", IntCell(2), IntCell(1), "EastMoney", IntCell(3),
           IntCell(-1), IntCell(1))
BearRow ==
    RawRow("PingAn", Text(<<"3">>), IntCell(-2), "Guotai", Text(<<"0">>),
           IntCell(2), IntCell(1))

\* the tables of the sheets: two that normalize (one of them under the
\* names of the Zhengzhou exchange), one of two rows, and one without the
\* vol column
SheetFrames ==
    { Frame(CanonicalNames, <<BullRow>>),
      Frame(AliasNames, <<BearRow>>),
      Frame(CanonicalNames, <<BearRow, BullRow>>),
      Frame(WithoutVol, <<BullRow>>) }

\* the sheets of a run, each with the exchange whose file holds it, in the
\* order of the files: at most MaxContracts in all
SheetLists ==
    {sl \in UNION {[1..n -> (1..Len(exchanges)) \X SheetFrames] :
                      n \in 0..MaxContracts} :
        \A i \in 1..(Len(sl) - 1) : sl[i][1] <= sl[i + 1][1]}

\* exchange_files for a list of sheets
FilesOf(sl) ==
    [e \in 1..Len(exchanges) |->
        LET mine == SelectSeq(sl, LAMBDA x : x[1] = e)
        IN  [i \in 1..Len(mine) |-> mine[i][2]]]

\* the rows of a normalized table as the spider-web strategy reads them
SeatsOf(rows) ==
    [i \in 1..Len(rows) |->
        Seat(rows[i].vol, rows[i].long_open_interest,
             rows[i].short_open_interest)]

\* results[key] = value replacing the whole dict
StoreResult_Overwrite(res, key, value) == <<[key |-> key] @@ value>>

\* results[key] = value: a key already there keeps its place
StoreResult(res, key, value) ==
    IF \E i \in 1..Len(res) : res[i].key = key
    THEN [i \in 1..Len(res) |->
            IF res[i].key = key THEN [key |-> key] @@ value ELSE res[i]]
    ELSE Append(res, [key |-> key] @@ value)

\* the key without the name of the exchange
ResultKey_ContractOnly(exchange_name, contract_name) ==
    <<"", contract_name>>

\* f"{exchange_name}_{contract_name}"
ResultKey(exchange_name, contract_name) == <<exchange_name, contract_name>>

\* both strategies stored under one name: the second replaces the first
StrategyResults_SameName(pc, spider) ==
    [SpiderWeb |-> [signal |-> spider.signal, strength |-> spider.strength]]

\* the dict stored under 'strategies': signal and strength by strategy
\* (the names stand for 多空力量变化策略 and 蜘蛛网策略)
StrategyResults(pc, spider) ==
    [PowerChange |-> [signal |-> pc.signal, strength |-> pc.strength],
     SpiderWeb   |-> [signal |-> spider.signal, strength |-> spider.strength]]

\* the totals of a normalized table as the power-change strategy reads them
TotalsOf(processed) ==
    [total_long_chg  |-> [k |-> "num", v |-> processed.total_long_chg],
     total_short_chg |-> [k |-> "num", v |-> processed.total_short_chg]]

\* the value stored for a contract: the signals of the strategies in
\* self.strategies and the normalized table, sorted_seats = order
ContractEntry(processed, order) ==
    [strategies |->
         StrategyResults(PowerChangeAnalyze(TotalsOf(processed)),
             SpiderWebSignal(SeatsOf(processed.raw_data.rows), order)),
     raw_data |-> processed.raw_data]

InitOrch ==
    /\ exchange_files \in {FilesOf(sl) : sl \in SheetLists}
    /\ orch_pos = <<1, 0>>
    /\ results = <<>>
    /\ retail_pos = 0
    /\ retail_long_signals = <<>>
    /\ retail_short_signals = <<>>
    /\ PowerIdle /\ SpiderIdle /\ RetailIdle /\ NormIdle /\ TermIdle
    /\ ParIdle /\ FetchIdle

\* the loop over the exchanges moves on: the exchange has no data
\* (continue) or all its contracts are done
NextExchange ==
    /\ orch_pos[1] <= Len(exchanges)
    /\ orch_pos[2] = Len(exchange_files[orch_pos[1]])
    /\ orch_pos' = <<orch_pos[1] + 1, 0>>
    /\ UNCHANGED <<exchange_files, powerVars, spiderVars, retailVars,
                   batchVars, normVars, termVars,
                   parVars, fetchVars>>

\* one iteration of the loop over exchange_data.items(): the table is
\* normalized; when that gives a dict every strategy analyses it and the
\* signals are stored under the key of the contract
AnalyzeContract ==
    /\ orch_pos[1] <= Len(exchanges)
    /\ orch_pos[2] < Len(exchange_files[orch_pos[1]])
    /\ LET exchange_name == exchanges[orch_pos[1]]
           contract_name == orch_pos[2] + 1
           processed == ProcessPositionData(
                            exchange_files[orch_pos[1]][contract_name])
       IN  /\ orch_pos' = <<orch_pos[1], contract_name>>
           /\ IF processed = None THEN UNCHANGED results
              ELSE LET seats == SeatsOf(processed.raw_data.rows)
                   IN  \E order \in SortedOrders(seats, Range(ValidSeats(seats))) :
                           results' =
                               StoreResult(results,
                                   ResultKey(exchange_name, contract_name),
                                   ContractEntry(processed, order))
    /\ UNCHANGED <<exchange_files, retail_pos, retail_long_signals,
                   retail_short_signals, powerVars, spiderVars, retailVars,
                   normVars, termVars,
                   parVars, fetchVars>>

\* return results: what the caller of analyze_all_positions receives once
\* the loops are over, the dict and nothing else
OrchReturn == [results |-> results]

NextOrch == NextExchange \/ AnalyzeContract

SpecOrch == InitOrch /\ [][NextOrch]_vars

(***************************************************************************)
(* get_analysis_results_optimized: the five fetches run in a pool of       *)
(* workers and each is analysed when as_completed yields it.               *)
(*                                                                         *)
(* fetched[e] is how the fetch of the e-th exchange ends; completed holds  *)
(* the exchanges whose iteration of the loop is over; par_return is what   *)
(* the function returns.                                                   *)
(***************************************************************************)

\* the list exchanges: 大商所, 中金所, 郑商所, 上期所, 广期所
par_exchanges == <<"DCE", "CFFEX", "CZCE", "SHFE", "GFEX">>

\* how a fetch ends: fetch_single_exchange_data returns (data, None) with
\* a dict of tables, (data, None) with nothing in data, or (None, error)
\* after an exception; or it is not done when the timeout of as_completed
\* runs out
Fetched(sheets) == [k |-> "data", sheets |-> sheets]
NoRows == [k |-> "empty"]
FetchFailed == [k |-> "failed"]
Late == [k |-> "late"]

\* the number of exchanges of a run whose fetch fails or is late
MaxFaulty == 1

\* the tables a fetch returns
FetchedFrames ==
    { Frame(CanonicalNames, <<BullRow>>), Frame(AliasNames, <<BearRow>>) }

\* the sheets the fetches of a run return, each with its exchange: at most
\* MaxContracts in all
FetchedLists ==
    {sl \in UNION {[1..n -> (1..Len(par_exchanges)) \X FetchedFrames] :
                      n \in 0..MaxContracts} :
        \A i \in 1..(Len(sl) - 1) : sl[i][1] <= sl[i + 1][1]}

\* how the fetches of the exchanges in E end when they return no table
FaultPatterns(E, faults) ==
    {fp \in [E -> {NoRows} \cup faults] :
        Cardinality({e \in E : fp[e] # NoRows}) <= MaxFaulty}

\* the ends of the five fetches of a run
FetchOutcomes(faults) ==
    UNION {LET files == FilesOf(sl)
               E == {e \in 1..Len(par_exchanges) : files[e] = <<>>}
           IN  {[e \in 1..Len(par_exchanges) |->
                    IF e \in E THEN fp[e] ELSE Fetched(files[e])] :
                        fp \in FaultPatterns(E, faults)} :
           sl \in FetchedLists}

\* what the body of the loop over data.items() can store for each table
\* of FetchedFrames: nothing when process_position_data returns None, the
\* entry of the contract otherwise (one for each order the sort can give)
FetchedEntries ==
    [d \in FetchedFrames |->
        LET processed == ProcessPositionData(d)
        IN  IF processed = None THEN {}
            ELSE LET seats == SeatsOf(processed.raw_data.rows)
                 IN  {ContractEntry(processed, order) :
                         order \in SortedOrders(seats,
                                       Range(ValidSeats(seats)))}]

\* the loop over data.items() from the i-th contract on: the dicts it can
\* leave in results
RECURSIVE AnalyzeSheets(_, _, _, _)

AnalyzeSheets(res, exchange_name, sheets, i) ==
    IF i > Len(sheets) THEN {res}
    ELSE IF FetchedEntries[sheets[i]] = {}
        THEN AnalyzeSheets(res, exchange_name, sheets, i + 1)
    ELSE UNION {AnalyzeSheets(
                    StoreResult(res, ResultKey(exchange_name, i), entry),
                    exchange_name, sheets, i + 1) :
                entry \in FetchedEntries[sheets[i]]}

InitPar ==
    /\ fetched \in FetchOutcomes({FetchFailed, Late})
    /\ completed = {}
    /\ successful_exchanges = 0
    /\ par_return = Pending
    /\ PowerIdle /\ SpiderIdle /\ RetailIdle /\ BatchIdle
    /\ NormIdle /\ OrchIdle /\ TermIdle /\ FetchIdle

\* one iteration of the loop over as_completed: the future of an exchange
\* is done and is yielded; its tables are analysed when it brought some,
\* a warning is shown otherwise
ProcessFuture ==
    /\ par_return = Pending
    /\ \E e \in (1..Len(par_exchanges)) \ completed :
           /\ fetched[e] # Late
           /\ completed' = completed \cup {e}
           /\ IF fetched[e].k = "data"
              THEN /\ results' \in AnalyzeSheets(results, par_exchanges[e],
                                                 fetched[e].sheets, 1)
                   /\ successful_exchanges' = successful_exchanges + 1
              ELSE UNCHANGED <<results, successful_exchanges>>
    /\ UNCHANGED <<fetched, par_return, retail_pos, retail_long_signals,
                   retail_short_signals, powerVars, spiderVars, retailVars,
                   normVars, orchVars, termVars, fetchVars>>

\* the timeout of as_completed runs out while a future is not done:
\* TimeoutError leaves the loop and the function returns None
TimeoutFires ==
    /\ par_return = Pending
    /\ \E e \in (1..Len(par_exchanges)) \ completed : fetched[e] = Late
    /\ par_return' = None
    /\ UNCHANGED <<fetched, completed, successful_exchanges, powerVars,
                   spiderVars, retailVars, batchVars, normVars, orchVars,
                   termVars, fetchVars>>

\* every future was yielded: None when no exchange brought data, results
\* otherwise
ReturnResults ==
    /\ par_return = Pending
    /\ completed = 1..Len(par_exchanges)
    /\ par_return' = IF successful_exchanges = 0 THEN None
                                                 ELSE Returned(results)
    /\ UNCHANGED <<fetched, completed, successful_exchanges, powerVars,
                   spiderVars, retailVars, batchVars, normVars, orchVars,
                   termVars, fetchVars>>

NextPar == ProcessFuture \/ TimeoutFires \/ ReturnResults

SpecPar == InitPar /\ [][NextPar]_vars

(***************************************************************************)
(* FuturesPositionAnalyzer.fetch_and_analyze: fetch_data writes the tables *)
(* of each exchange to its file of the data directory, then                *)
(* analyze_all_positions reads the files.                                  *)
(*                                                                         *)
(* data_dir[e] is the file of the e-th exchange; call holds the trade date *)
(* of the call under way or last made, the exchanges whose fetch returned  *)
(* tables in it, and what fetch_data returned; calls counts the calls.     *)
(***************************************************************************)

\* bound on the number of calls of fetch_and_analyze on one directory
MaxCalls == 2

\* the trade dates asked for
TradeDates == {1, 2}

\* data_dict of an exchange that publishes for the date: one table
Published(trade_date) ==
    IF trade_date = 1 THEN <<Frame(CanonicalNames, <<BullRow>>)>>
                      ELSE <<Frame(AliasNames, <<BearRow>>)>>

\* the columns of names, under either naming
NameColumns ==
    {"long_party_name", "short_party_name", "g_party_n", "t_party_n"}

\* a table written by df.to_excel(index=False) and read by pd.read_excel:
\* an empty text is an empty cell and is read as NaN, a float without
\* fraction is read as an integer, and a column of numbers with an empty
\* cell is a column of floats
ExcelRead(d) ==
    LET Cell(c) == IF c = Text(<<>>) THEN NaN
                   ELSE IF c.k = "float" THEN IntCell(c.v)
                   ELSE c
        Floats(col) ==
            /\ \A i \in 1..Len(d.rows) : Cell(d.rows[i][col]).k # "text"
            /\ \E i \in 1..Len(d.rows) : Cell(d.rows[i][col]) = NaN
    IN  [columns |-> d.columns,
         rows |-> [i \in 1..Len(d.rows) |->
                     [col \in d.columns |->
                         IF col \in NameColumns THEN d.rows[i][col]
                         ELSE IF Cell(d.rows[i][col]).k = "int" /\ Floats(col)
                             THEN FloatCell(Cell(d.rows[i][col]).v)
                         ELSE Cell(d.rows[i][col])]]]

\* the file pd.ExcelWriter leaves for data_dict
SavedFile(trade_date, data_dict) ==
    [trade_date |-> trade_date, sheets |-> data_dict]

\* read_exchange_data: {} when the file does not exist, the tables of its
\* sheets otherwise
ReadExchangeData(file) ==
    IF file = Absent THEN <<>>
    ELSE [i \in 1..Len(file.sheets) |-> ExcelRead(file.sheets[i])]

\* a new analyzer on an empty data directory; no call was made
InitFetch ==
    /\ data_dir = [e \in 1..Len(exchanges) |-> Absent]
    /\ call = Absent
    /\ calls = 0
    /\ exchange_files = [e \in 1..Len(exchanges) |-> <<>>]
    /\ orch_pos = <<Len(exchanges) + 1, 0>>
    /\ PowerIdle /\ SpiderIdle /\ RetailIdle /\ BatchIdle
    /\ NormIdle /\ TermIdle /\ ParIdle

\* fetch_and_analyze(trade_date) up to the first loop of
\* analyze_all_positions: fetch_data saves the tables of the exchanges in
\* delivering; the fetch of every other exchange returns nothing or
\* raises, which leaves its file as it is and makes fetch_data return
\* False; then results = {} and the files are read
FetchData ==
    /\ calls < MaxCalls
    /\ orch_pos[1] = Len(exchanges) + 1
    /\ \E trade_date \in TradeDates :
       \E delivering \in SUBSET (1..Len(exchanges)) :
           /\ data_dir' =
                  [e \in 1..Len(exchanges) |->
                      IF e \in delivering
                      THEN SavedFile(trade_date, Published(trade_date))
                      ELSE data_dir[e]]
           /\ call' = [trade_date |-> trade_date, fetched |-> delivering,
                       success |-> delivering = 1..Len(exchanges)]
    /\ calls' = calls + 1
    /\ exchange_files' =
           [e \in 1..Len(exchanges) |-> ReadExchangeData(data_dir'[e])]
    /\ orch_pos' = <<1, 0>>
    /\ results' = <<>>
    /\ UNCHANGED <<retail_pos, retail_long_signals, retail_short_signals,
                   powerVars, spiderVars, retailVars, normVars, termVars,
                   parVars>>

NextFetch == FetchData \/ NextExchange \/ AnalyzeContract

SpecFetch == InitFetch /\ [][NextFetch]_vars

(***************************************************************************)
(* analyze_term_structure_with_prices                                      *)
(*                                                                         *)
(* A contract code is a sequence of digits, ordered as Python orders       *)
(* strings: "1" < "10" < "2".                                              *)
(***************************************************************************)

\* a < b for two strings
LexLess(a, b) ==
    \/ \E i \in 1..Min(Len(a), Len(b)) :
           a[i] < b[i] /\ \A j \in 1..(i - 1) : a[j] = b[j]
    \/ Len(a) < Len(b) /\ \A j \in 1..Len(a) : a[j] = b[j]

PriceRow(variety, symbol, close) ==
    [variety |-> variety, symbol |-> symbol, close |-> close]

\* the rows of a price table: the contracts "1", "10" and "2" of underlying
\* A at the prices 1 to 3, one without trade (close 0), one without price,
\* one whose price is text; two contracts of underlying B and one whose
\* price is text
PriceRows ==
    {PriceRow("A", sym, Num(c)) : sym \in {<<1>>, <<1, 0>>, <<2>>}, c \in 1..3}
    \cup { PriceRow("A", <<1, 0>>, Num(0)),
           PriceRow("A", <<1, 0>>, NaN),
           PriceRow("A", <<1>>, Str),
           PriceRow("B", <<1>>, Num(2)),
           PriceRow("B", <<2>>, Num(1)),
           PriceRow("B", <<1>>, Str) }

\* bound on the number of rows of a price table
MaxPoints == 3

\* a price table with its three columns, and one that has no close column
PriceFrames ==
    {[columns |-> {"symbol", "close", "variety"}, rows |-> rows] :
        rows \in UNION {[1..n -> PriceRows] : n \in 0..MaxPoints}}
    \cup {[columns |-> {"symbol", "variety"},
           rows |-> <<[variety |-> "A", symbol |-> <<1>>]>>]}

RECURSIVE UniqueValues(_)
\* Series.unique(): the distinct values in the order of first appearance
UniqueValues(xs) ==
    IF Len(xs) = 0 THEN <<>>
    ELSE LET front == UniqueValues(SubSeq(xs, 1, Len(xs) - 1))
         IN  IF xs[Len(xs)] \in Range(front) THEN front
             ELSE Append(front, xs[Len(xs)])

RECURSIVE SymbolOrders(_, _)
\* the orders sort_values('symbol') can return for the rows S: rows of the
\* same symbol come in any order
SymbolOrders(rows, S) ==
    IF S = {} THEN {<<>>}
    ELSE UNION { {<<x>> \o p : p \in SymbolOrders(rows, S \ {x})} :
                 x \in {y \in S : \A z \in S :
                            ~LexLess(rows[z].symbol, rows[y].symbol)} }

\* len(contracts) < 1 in place of len(contracts) < 2
TooFew_One(n) == n < 1

\* len(contracts) < 2
TooFew(n) == n < 2

\* the label with >= and <= in place of > and <
Structure_NonStrict(closes) ==
    LET is_decreasing == \A i \in 1..(Len(closes) - 1) : closes[i] >= closes[i + 1]
        is_increasing == \A i \in 1..(Len(closes) - 1) : closes[i] <= closes[i + 1]
    IN  IF is_decreasing THEN "back"
        ELSE IF is_increasing THEN "contango"
        ELSE "flat"

\* the label of a list of closes
Structure(closes) ==
    LET is_decreasing == \A i \in 1..(Len(closes) - 1) : closes[i] > closes[i + 1]
        is_increasing == \A i \in 1..(Len(closes) - 1) : closes[i] < closes[i + 1]
    IN  IF is_decreasing THEN "back"
        ELSE IF is_increasing THEN "contango"
        ELSE "flat"

\* the filter with close >= 0 in place of close > 0
VarietyData_KeepZero(rows, sorted, variety) ==
    SelectSeq(sorted, LAMBDA i : /\ rows[i].variety = variety
                                 /\ rows[i].close.k = "num"
                                 /\ rows[i].close.v >= 0)

\* the rows of one variety, sorted by symbol (sorted is the whole table in
\* an order of its symbols) and filtered to close > 0 and not missing
VarietyData(rows, sorted, variety) ==
    SelectSeq(sorted, LAMBDA i : /\ rows[i].variety = variety
                                 /\ rows[i].close.k = "num"
                                 /\ rows[i].close.v > 0)

\* the tuple appended to results for a variety, <<>> when it has too few
\* points
VarietyResult(rows, sorted, variety) ==
    LET variety_data == VarietyData(rows, sorted, variety)
        contracts == [i \in 1..Len(variety_data) |-> rows[variety_data[i]].symbol]
        closes    == [i \in 1..Len(variety_data) |-> rows[variety_data[i]].close.v]
    IN  IF TooFew(Len(contracts)) THEN <<>>
        ELSE <<[variety |-> variety, structure |-> Structure(closes),
                contracts |-> contracts, closes |-> closes]>>

RECURSIVE CollectResults(_, _, _)
\* results after the loop over the varieties vs
CollectResults(rows, sorted, vs) ==
    IF Len(vs) = 0 THEN <<>>
    ELSE CollectResults(rows, sorted, SubSeq(vs, 1, Len(vs) - 1))
             \o VarietyResult(rows, sorted, vs[Len(vs)])

\* analyze_term_structure_with_prices(df) with the sort giving the order
\* sorted: [] without the three columns; [] from the except branch when
\* the comparison close > 0 meets text (TypeError); the list of results
\* otherwise
TermStructure(d, sorted) ==
    IF ~({"symbol", "close", "variety"} \subseteq d.columns) THEN <<>>
    ELSE IF \E i \in 1..Len(d.rows) : d.rows[i].close = Str THEN <<>>
    ELSE CollectResults(d.rows, sorted,
             UniqueValues([i \in 1..Len(d.rows) |-> d.rows[i].variety]))

InitTerm ==
    /\ price_data \in PriceFrames
    /\ structure_results = Pending
    /\ PowerIdle /\ SpiderIdle /\ RetailIdle /\ BatchIdle
    /\ NormIdle /\ OrchIdle
    /\ ParIdle /\ FetchIdle

\* one call analyze_term_structure_with_prices(price_data)
AnalyzeTermStructure ==
    /\ structure_results = Pending
    /\ \E sorted \in SymbolOrders(price_data.rows, 1..Len(price_data.rows)) :
           structure_results' = Returned(TermStructure(price_data, sorted))
    /\ UNCHANGED <<price_data, powerVars, spiderVars, retailVars, batchVars,
                   normVars, orchVars,
                   parVars, fetchVars>>

NextTerm == AnalyzeTermStructure

SpecTerm == InitTerm /\ [][NextTerm]_vars

(***************************************************************************)
(* Properties of PowerChangeStrategy.analyze                               *)
(***************************************************************************)

\* the aggregate is a number (or a string that float() parses)
IsNumber(x) == x.k \in {"num", "numstr"}

PowerDone == pcOut # Pending

BothNumeric ==
    /\ data.total_long_chg.k \in {"num", "numstr", "nan"}
    /\ data.total_short_chg.k \in {"num", "numstr", "nan"}

\* long up and short down, or long down and short up
Opposed ==
    /\ IsNumber(data.total_long_chg) /\ IsNumber(data.total_short_chg)
    /\ \/ data.total_long_chg.v > 0 /\ data.total_short_chg.v < 0
       \/ data.total_long_chg.v < 0 /\ data.total_short_chg.v > 0

\* C3: for every numeric input that is neither (long > 0, short < 0) nor
\* (long < 0, short > 0), analyze returns Neutral with strength 0
C3_NeutralOtherwise ==
    (PowerDone /\ BothNumeric /\ ~Opposed)
    => pcOut.signal = "Neutral" /\ pcOut.strength = 0

\* analyze has answered an input with one change zero and the other not
C3_Witness ==
    /\ PowerDone
    /\ data.total_long_chg = [k |-> "num", v |-> 0]
    /\ data.total_short_chg = [k |-> "num", v |-> -2]
    /\ pcOut.signal = "Neutral"

\* C4: analyze always returns; when an aggregate is absent or is not
\* convertible to a number the result is Error with strength 0 and a
\* reason that names the fault
C4_ErrorOnBadAggregate ==
    PowerDone =>
        /\ pcOut.signal \in {"Bullish", "Bearish", "Neutral", "Error"}
        /\ ~BothNumeric => /\ pcOut.signal = "Error"
                           /\ pcOut.strength = 0
                           /\ pcOut.fault \in {"KeyError", "ValueError", "TypeError"}

\* analyze has answered an input whose total_long_chg key is absent
C4_Witness ==
    /\ PowerDone
    /\ data.total_long_chg = Absent
    /\ IsNumber(data.total_short_chg)
    /\ pcOut.signal = "Error"

(***************************************************************************)
(* Properties of SpiderWebStrategy.analyze                                 *)
(***************************************************************************)

\* analyze has returned for a table
SpiderDone == sw # Pending /\ df.k = "table"

\* the rows with volume and both open interests present
PresentRows ==
    {i \in 1..Len(df.rows) : /\ df.rows[i].vol # NaN
                             /\ df.rows[i].long_open_interest # NaN
                             /\ df.rows[i].short_open_interest # NaN}

\* the rows placed in either group
Grouped == Range(sw.its) \cup Range(sw.uts)

\* C5: a seat whose traded volume is exactly 0 is not a valid seat and is in
\* neither group
C5_ZeroVolumeExcluded ==
    SpiderDone =>
        \A i \in Range(sw.valid_seats) \cup Grouped : df.rows[i].vol # Num(0)

\* long + short open interest of row i
Held(i) == df.rows[i].long_open_interest.v + df.rows[i].short_open_interest.v

\* stat of row i is defined (not 0/0) and at least the stat of row j, in
\* exact arithmetic (a seat with positions and volume 0 ranks above all)
StatAtLeast(i, j) == Held(i) * df.rows[j].vol.v >= Held(j) * df.rows[i].vol.v

StatDefined(i) == Held(i) # 0 \/ df.rows[i].vol.v # 0

\* C6: with n valid seats the informed group holds floor(0.4 n) seats, none
\* of them with a smaller stat than a seat of the uninformed group; the
\* uninformed group holds the other n - floor(0.4 n); the groups are
\* disjoint and together are the valid seats
C6_InformedSplit ==
    (SpiderDone /\ sw.signal # "Error" /\ PresentRows # {}) =>
        LET n == Cardinality(PresentRows)
        IN  /\ Len(sw.its) = (2 * n) \div 5
            /\ Len(sw.uts) = n - (2 * n) \div 5
            /\ Cardinality(Range(sw.its)) = Len(sw.its)
            /\ Cardinality(Range(sw.uts)) = Len(sw.uts)
            /\ Range(sw.its) \cap Range(sw.uts) = {}
            /\ Grouped = PresentRows
            /\ \A i \in Range(sw.its) : \A j \in Range(sw.uts) :
                   (StatDefined(i) /\ StatDefined(j)) => StatAtLeast(i, j)

\* a table of four valid seats was split into one informed seat, which
\* traded, and three uninformed seats of a strictly smaller stat
C6_Witness ==
    /\ SpiderDone
    /\ Len(sw.its) = 1 /\ Len(sw.uts) = 3
    /\ df.rows[sw.its[1]].vol = Num(1)
    /\ \A j \in Range(sw.uts) : StatDefined(j) /\ ~StatAtLeast(j, sw.its[1])

\* C7: with one or two valid seats (split index 0) analyze returns Neutral
\* or Error and neither the strength nor the reported MSD is NaN
C7_SmallTableNoNaN ==
    (SpiderDone /\ Cardinality(PresentRows) \in {1, 2}) =>
        /\ sw.signal \in {"Neutral", "Error"}
        /\ sw.strength.k # "nan"
        /\ sw.msd.k # "nan"

\* exact skew of row i is defined and equals that of row j
SameSkew(i, j) ==
    /\ Held(i) # 0 /\ Held(j) # 0
    /\ (df.rows[i].long_open_interest.v - df.rows[i].short_open_interest.v) * Held(j)
         = (df.rows[j].long_open_interest.v - df.rows[j].short_open_interest.v) * Held(i)

\* the skew column of a group
GroupSkews(g) == [i \in 1..Len(g) |-> Skew(df.rows[g[i]])]

\* C8: MSD is the informed mean skew minus the uninformed mean skew; the
\* signal is Bullish with strength |MSD| when MSD > 0, Bearish with strength
\* |MSD| when MSD < 0, Neutral when MSD = 0; when all skews of both groups
\* are equal the signal is Neutral
C8_MsdSignal ==
    (SpiderDone /\ sw.msd.k # "none") =>
        /\ sw.msd = FSub(Mean(GroupSkews(sw.its)), Mean(GroupSkews(sw.uts)))
        /\ FPos(sw.msd) => sw.signal = "Bullish" /\ sw.strength = FAbs(sw.msd)
        /\ FNegative(sw.msd) => sw.signal = "Bearish" /\ sw.strength = FAbs(sw.msd)
        /\ sw.msd.k = "zero" => sw.signal = "Neutral"
        /\ (\A i, j \in Grouped : SameSkew(i, j)) => sw.signal = "Neutral"

(***************************************************************************)
(* Properties of analyze_retail_reverse_strategy                           *)
(***************************************************************************)

RetailDone == rr # Pending

\* the number in a cell, 0 for a missing one
CellValue(c) == IF c = NaN THEN 0 ELSE c.v

RECURSIVE SumOver(_, _)
\* the sum of f[i] over the rows i of S
SumOver(f, S) ==
    IF S = {} THEN 0
    ELSE LET i == CHOOSE x \in S : TRUE IN f[i] + SumOver(f, S \ {i})

AllRows == 1..Len(rdf)

\* the rows whose long (short) party is a tracked seat
TrackedLong == {i \in AllRows : rdf[i].long_party_name \in {"EastMoney", "PingAn", "Huishang"}}
TrackedShort == {i \in AllRows : rdf[i].short_party_name \in {"EastMoney", "PingAn", "Huishang"}}

LongChg == [i \in AllRows |-> CellValue(rdf[i].long_open_interest_chg)]
ShortChg == [i \in AllRows |-> CellValue(rdf[i].short_open_interest_chg)]
LongPos == [i \in AllRows |-> CellValue(rdf[i].long_open_interest)]
ShortPos == [i \in AllRows |-> CellValue(rdf[i].short_open_interest)]

\* every cell of a numeric column is a number or missing
WellFormed ==
    \A i \in AllRows :
        Str \notin {rdf[i].long_open_interest, rdf[i].long_open_interest_chg,
                    rdf[i].short_open_interest, rdf[i].short_open_interest_chg}

\* num / den as a float, 0 when the denominator is 0
RatioOrZero(num, den) == IF den = 0 THEN FZero ELSE FDivInts(num, den)

\* C9: when the tracked seats' total long change is > 0 and their total
\* short change is <= 0 the signal is Bearish and the strength is the
\* tracked seats' total long position over the table's total long open
\* interest (0 when that total is 0)
C9_BearishOnRetailLong ==
    (/\ RetailDone /\ WellFormed
     /\ SumOver(LongChg, TrackedLong) > 0
     /\ SumOver(ShortChg, TrackedShort) <= 0)
    => /\ rr.signal = "Bearish"
       /\ rr.strength = RatioOrZero(SumOver(LongPos, TrackedLong),
                                    SumOver(LongPos, AllRows))

\* C10: when the tracked seats' total short change is > 0 and their total
\* long change is <= 0 the signal is Bullish and the strength is the
\* tracked seats' total short position over the table's total short open
\* interest (0 when that total is 0)
C10_BullishOnRetailShort ==
    (/\ RetailDone /\ WellFormed
     /\ SumOver(ShortChg, TrackedShort) > 0
     /\ SumOver(LongChg, TrackedLong) <= 0)
    => /\ rr.signal = "Bullish"
       /\ rr.strength = RatioOrZero(SumOver(ShortPos, TrackedShort),
                                    SumOver(ShortPos, AllRows))

\* C11: in every remaining case (tracked long change and tracked short
\* change both > 0, both <= 0, or no tracked seat in the table) the signal
\* is Neutral with strength 0
C11_NeutralOtherwise ==
    (/\ RetailDone /\ WellFormed
     /\ \/ SumOver(LongChg, TrackedLong) > 0 /\ SumOver(ShortChg, TrackedShort) > 0
        \/ SumOver(LongChg, TrackedLong) <= 0 /\ SumOver(ShortChg, TrackedShort) <= 0
        \/ TrackedLong \cup TrackedShort = {})
    => rr.signal = "Neutral" /\ rr.strength = FZero

\* the tracked seats added on both sides and the answer was Neutral
C11_Witness ==
    /\ RetailDone /\ WellFormed
    /\ SumOver(LongChg, TrackedLong) > 0
    /\ SumOver(ShortChg, TrackedShort) > 0
    /\ rr.signal = "Neutral"
    /\ rr.seat_details # <<>>

\* the rows on which seat is the long (short) party
LongRowsOf(seat) == {i \in AllRows : rdf[i].long_party_name = seat}
ShortRowsOf(seat) == {i \in AllRows : rdf[i].short_party_name = seat}

\* the tracked seats whose accumulated long or short change is not zero
ChangedSeats ==
    {seat \in {"EastMoney", "PingAn", "Huishang"} :
        \/ SumOver(LongChg, LongRowsOf(seat)) # 0
        \/ SumOver(ShortChg, ShortRowsOf(seat)) # 0}

\* C12: the detail list holds exactly the tracked seats with a non-zero
\* long or short change, while the positions of the tracked seats without
\* change still count in the tracked totals that decide the signal and
\* give retail_ratio
C12_UnchangedSeatsCounted ==
    (RetailDone /\ WellFormed) =>
        /\ {rr.seat_details[i].seat_name : i \in DOMAIN rr.seat_details}
               = ChangedSeats
        /\ rr.signal = "Bearish" =>
               rr.strength = RatioOrZero(SumOver(LongPos, TrackedLong),
                                         SumOver(LongPos, AllRows))
        /\ rr.signal = "Bullish" =>
               rr.strength = RatioOrZero(SumOver(ShortPos, TrackedShort),
                                         SumOver(ShortPos, AllRows))

\* no open interest of the table is negative
NonNegativePositions ==
    \A i \in AllRows : LongPos[i] >= 0 /\ ShortPos[i] >= 0

\* 0 <= x <= 1
InUnitInterval(x) ==
    \/ x.k = "zero"
    \/ x.k = "fin" /\ x.s = 1 /\ ~FLess(FromInt(1), x)

MeetsText(t) ==
    \E i \in 1..Len(t) :
        \/ /\ t[i].long_party_name \in {"EastMoney", "PingAn", "Huishang"}
           /\ Str \in {t[i].long_open_interest, t[i].long_open_interest_chg}
        \/ /\ t[i].short_party_name \in {"EastMoney", "PingAn", "Huishang"}
           /\ Str \in {t[i].short_open_interest, t[i].short_open_interest_chg}

\* the contracts the loop has passed that carry a table
Visited == {c \in 1..retail_pos : results[c].raw_data.k = "table"}

\* the contracts listed in retail_long_signals or retail_short_signals
Listed(list) == {list[i].contract : i \in DOMAIN list}

\* C14: the strategy always returns; a malformed field met while iterating
\* the rows gives Error with strength 0 and an empty detail list for that
\* contract only: it is entered in neither list, and every other contract
\* of the batch keeps the entry of its own signal
C14_ErrorIsolated ==
    /\ (RetailDone /\ MeetsText(rdf)) =>
           /\ rr.signal = "Error"
           /\ rr.strength = FZero
           /\ rr.seat_details = <<>>
    /\ RetailDone => rr.signal \in {"Bullish", "Bearish", "Neutral", "Error"}
    /\ \A c \in Visited :
           LET t == results[c].raw_data.rows
           IN  IF MeetsText(t)
               THEN c \notin Listed(retail_long_signals)
                              \cup Listed(retail_short_signals)
               ELSE /\ c \in Listed(retail_long_signals)
                           <=> RetailReverse(t).signal = "Bullish"
                    /\ c \in Listed(retail_short_signals)
                           <=> RetailReverse(t).signal = "Bearish"
                    /\ \A i \in DOMAIN retail_long_signals :
                           retail_long_signals[i].contract = c =>
                               retail_long_signals[i]
                                   = SignalEntry(c, RetailReverse(t))
                    /\ \A i \in DOMAIN retail_short_signals :
                           retail_short_signals[i].contract = c =>
                               retail_short_signals[i]
                                   = SignalEntry(c, RetailReverse(t))

\* the first contract of the batch met text and answered nothing to the
\* lists; the second, analysed after it, is listed as Bearish
C14_Witness ==
    /\ retail_pos = 2
    /\ results[1].raw_data.k = "table" /\ MeetsText(results[1].raw_data.rows)
    /\ Listed(retail_short_signals) = {2}
    /\ Listed(retail_long_signals) = {}

(***************************************************************************)
(* Properties of process_position_data                                     *)
(***************************************************************************)

NormDone == processed_data # Pending

\* the column of raw_df that holds field f: its canonical name or its alias
\* of the Zhengzhou exchange
HeldUnder(f) ==
    IF f \in raw_df.columns THEN {f}
    ELSE {c \in raw_df.columns :
            <<c, f>> \in {<<"g_party_n", "long_party_name">>,
                          <<"open_inten", "long_open_interest">>,
                          <<"inten_intert", "long_open_interest_chg">>,
                          <<"t_party_n", "short_party_name">>,
                          <<"open_inten.1", "short_open_interest">>,
                          <<"inten_intert.1", "short_open_interest_chg">>}}

AllFields ==
    {"long_party_name", "long_open_interest", "long_open_interest_chg",
     "short_party_name", "short_open_interest", "short_open_interest_chg",
     "vol"}

NumericFields == AllFields \ {"long_party_name", "short_party_name"}

\* every required field is a column, under one of its two names
AllHeld == \A f \in AllFields : HeldUnder(f) # {}

\* the cell of field f in input row i
RawCell(i, f) == raw_df.rows[i][CHOOSE c \in HeldUnder(f) : TRUE]

\* what a raw numeric cell stands for: its number, or NaN when it is
\* missing, empty or no number
Meaning(c) ==
    CASE c.k \in {"int", "float"}         -> Num(c.v)
      [] c = NaN                          -> NaN
      [] c = Text(<<"1", ",", "2">>)      -> Num(12)
      [] c = Text(<<"-", "2">>)           -> Num(-2)
      [] c = Text(<<" ", "2", " ">>)      -> Num(2)
      [] c = Text(<<"x">>)                -> NaN
      [] c = Text(<<>>)                   -> NaN

\* the number of rows kept of the input
KeptCount == IF Len(raw_df.rows) < 20 THEN Len(raw_df.rows) ELSE 20

\* the sum of the present values of field f over the first KeptCount rows
\* of the input
KeptTotal(f) ==
    SumOver([i \in 1..KeptCount |-> CellValue(Meaning(RawCell(i, f)))],
            1..KeptCount)

\* C15: the table handed to the strategies holds exactly the first
\* min(20, n) rows of the n input rows, in input order, and the four
\* aggregates are computed from those rows only
C15_FirstTwentyRows ==
    (NormDone /\ processed_data # None) =>
        LET out == processed_data.raw_data.rows
        IN  /\ Len(out) = KeptCount
            /\ \A i \in 1..KeptCount :
                   /\ \A f \in NumericFields : out[i][f] = Meaning(RawCell(i, f))
                   /\ \A f \in AllFields \ NumericFields : out[i][f] = RawCell(i, f)
            /\ processed_data.total_long = KeptTotal("long_open_interest")
            /\ processed_data.total_short = KeptTotal("short_open_interest")
            /\ processed_data.total_long_chg = KeptTotal("long_open_interest_chg")
            /\ processed_data.total_short_chg = KeptTotal("short_open_interest_chg")

\* a table of 22 rows was cut to 20, and the rows cut off hold positions
C15_Witness ==
    /\ NormDone /\ processed_data # None
    /\ Len(raw_df.rows) = 22
    /\ Len(processed_data.raw_data.rows) = 20
    /\ CellValue(Meaning(RawCell(21, "long_open_interest"))) > 0
    /\ CellValue(Meaning(RawCell(22, "long_open_interest"))) > 0

\* the cell is missing, empty, or text that is no number
Unparsable(c) == c \in {NaN, Text(<<>>), Text(<<"x">>)}

\* the sum of the cells of field f of the normalized table that are present
PresentTotal(f) ==
    LET out == processed_data.raw_data.rows
    IN  SumOver([i \in 1..Len(out) |-> IF out[i][f] = NaN THEN 0 ELSE out[i][f].v],
                1..Len(out))

\* C17: a numeric field that is empty or cannot be parsed becomes missing
\* (not zero, and the call does not fail on it: a table with all seven
\* columns is normalized whatever its cells hold), its row stays in the
\* normalized table, and every aggregate is the sum of the present values
\* of its column
C17_UnparsableIsMissing ==
    /\ (NormDone /\ AllFields \subseteq raw_df.columns) => processed_data # None
    /\ (NormDone /\ processed_data # None) =>
        /\ Len(processed_data.raw_data.rows) = KeptCount
        /\ \A i \in 1..KeptCount : \A f \in NumericFields :
               Unparsable(RawCell(i, f))
                   => processed_data.raw_data.rows[i][f] = NaN
        /\ processed_data.total_long = PresentTotal("long_open_interest")
        /\ processed_data.total_short = PresentTotal("short_open_interest")
        /\ processed_data.total_long_chg = PresentTotal("long_open_interest_chg")
        /\ processed_data.total_short_chg = PresentTotal("short_open_interest_chg")

\* a one-row table whose short change is no number and whose volume is
\* empty was normalized: the row is kept, both cells are missing, and the
\* long total is the parsed 12
C17_Witness ==
    /\ NormDone /\ processed_data # None
    /\ Len(raw_df.rows) = 1
    /\ RawCell(1, "short_open_interest_chg") = Text(<<"x">>)
    /\ RawCell(1, "vol") = Text(<<>>)
    /\ Len(processed_data.raw_data.rows) = 1
    /\ processed_data.raw_data.rows[1].short_open_interest_chg = NaN
    /\ processed_data.raw_data.rows[1].vol = NaN
    /\ processed_data.total_long = 12
    /\ processed_data.total_short_chg = 0

\* the input with every field under its canonical name
CanonicalFrame ==
    [columns |-> AllFields,
     rows |-> [i \in 1..Len(raw_df.rows) |->
                 [f \in AllFields |-> RawCell(i, f)]]]

\* C18: whenever each of the seven required columns is present under its
\* canonical name or under its alias, process_position_data succeeds and
\* returns the aggregates and the table it returns for the same data under
\* canonical names
C18_AliasBeforeValidation ==
    (NormDone /\ AllHeld) =>
        /\ processed_data # None
        /\ processed_data = ProcessPositionData(CanonicalFrame)

(***************************************************************************)
(* Properties of the signals of the three strategies                       *)
(***************************************************************************)

\* a float that is a number above 0, and one that is a number not below 0
IsPositive(x) == x.k \in {"fin", "inf"} /\ x.s = 1
IsNonNegative(x) == x.k = "zero" \/ IsPositive(x)

C28_ZeroStrengthIffNoDirection ==
    /\ PowerDone =>
           IF pcOut.signal \in {"Bullish", "Bearish"}
           THEN pcOut.strength > 0
           ELSE pcOut.signal \in {"Neutral", "Error"} /\ pcOut.strength = 0
    /\ sw # Pending =>
           IF sw.signal \in {"Bullish", "Bearish"}
           THEN IsPositive(sw.strength)
           ELSE sw.signal \in {"Neutral", "Error"} /\ sw.strength = FZero

\* a Bullish power-change signal of strength above 0 and, on the dict
\* without raw_data, the Error of the spider-web strategy with strength 0
C28_Witness ==
    /\ PowerDone /\ sw # Pending
    /\ pcOut.signal = "Bullish" /\ pcOut.strength > 0
    /\ sw.signal = "Error" /\ sw.strength = FZero

(***************************************************************************)
(* Properties of analyze_all_positions                                     *)
(***************************************************************************)

\* the contracts the run has passed: exchange index and place in the file
PassedContracts ==
    {ec \in (1..Len(exchange_files)) \X (1..MaxContracts + 1) :
        /\ ec[2] <= Len(exchange_files[ec[1]])
        /\ \/ ec[1] < orch_pos[1]
           \/ ec[1] = orch_pos[1] /\ ec[2] <= orch_pos[2]}

\* the table d has field f neither under its canonical name nor under its
\* alias
LacksField(d, f) ==
    /\ f \notin d.columns
    /\ \A c \in d.columns :
           <<c, f>> \notin {<<"g_party_n", "long_party_name">>,
                            <<"open_inten", "long_open_interest">>,
                            <<"inten_intert", "long_open_interest_chg">>,
                            <<"t_party_n", "short_party_name">>,
                            <<"open_inten.1", "short_open_interest">>,
                            <<"inten_intert.1", "short_open_interest_chg">>}

\* the entries of results stored for the contract
EntriesOf(ec) ==
    {i \in 1..Len(results) : results[i].key = <<exchanges[ec[1]], ec[2]>>}

Directions == {"Bullish", "Bearish", "Neutral", "Error"}

\* C16: a contract whose table lacks one of the seven required columns
\* after alias resolution is absent from the result mapping, and every
\* other contract of the run has its entry with a signal of every
\* strategy
C16_SchemaFailureSkipsContract ==
    \A ec \in PassedContracts :
        IF \E f \in AllFields : LacksField(exchange_files[ec[1]][ec[2]], f)
        THEN EntriesOf(ec) = {}
        ELSE /\ Cardinality(EntriesOf(ec)) = 1
             /\ \A i \in EntriesOf(ec) :
                    /\ DOMAIN results[i].strategies = {"PowerChange", "SpiderWeb"}
                    /\ results[i].strategies.PowerChange.signal \in Directions
                    /\ results[i].strategies.SpiderWeb.signal \in Directions
                    /\ results[i].raw_data.k = "table"

\* a finished run over a file whose first sheet has no vol column and whose
\* second sheet normalizes: only the second contract is in results
C16_Witness ==
    /\ orch_pos[1] = Len(exchanges) + 1
    /\ \E e \in 1..Len(exchanges) :
           /\ Len(exchange_files[e]) = 2
           /\ "vol" \notin exchange_files[e][1].columns
           /\ AllFields \subseteq exchange_files[e][2].columns
           /\ Len(results) = 1
           /\ results[1].key = <<exchanges[e], 2>>
           /\ results[1].strategies.PowerChange.signal = "Bullish"

\* the loop over the exchanges is over
OrchDone == orch_pos[1] = Len(exchanges) + 1

\* signal and strength of a strategy's answer
Answer(out) == [signal |-> out.signal, strength |-> out.strength]

\* the answers the spider-web strategy can give for a normalized table
SpiderAnswers(processed) ==
    LET seats == SeatsOf(processed.raw_data.rows)
    IN  {Answer(SpiderWebSignal(seats, order)) :
            order \in SortedOrders(seats, Range(ValidSeats(seats)))}

\* the passed contracts whose table normalizes
NormalizedContracts ==
    {ec \in PassedContracts :
        ProcessPositionData(exchange_files[ec[1]][ec[2]]) # None}

\* C21: every contract whose normalization succeeds has exactly one entry,
\* under the key of its exchange and its name, holding exactly one signal
\* of each registered strategy; no two contracts share a key; and each
\* signal is the one its strategy gives for that contract's table alone,
\* whatever the other strategy or the other contracts of the run give
\* (an Error included)
C21_OneSignalPerStrategy ==
    /\ \A ec \in NormalizedContracts :
           LET processed ==
                   ProcessPositionData(exchange_files[ec[1]][ec[2]])
           IN  /\ Cardinality(EntriesOf(ec)) = 1
               /\ \A i \in EntriesOf(ec) :
                      /\ DOMAIN results[i].strategies =
                             {"PowerChange", "SpiderWeb"}
                      /\ results[i].strategies.PowerChange =
                             Answer(PowerChangeAnalyze(TotalsOf(processed)))
                      /\ results[i].strategies.SpiderWeb \in
                             SpiderAnswers(processed)
    /\ \A ec1, ec2 \in NormalizedContracts :
           ec1 # ec2 => EntriesOf(ec1) \cap EntriesOf(ec2) = {}
    /\ \A i \in 1..Len(results) :
           \E ec \in NormalizedContracts : i \in EntriesOf(ec)

\* a finished run over two files whose first sheets bear the same name:
\* two entries under different keys, the power-change signals Bullish and
\* Bearish
C21_Witness ==
    /\ OrchDone
    /\ Len(results) = 2
    /\ results[1].key[1] # results[2].key[1]
    /\ results[1].key[2] = results[2].key[2]
    /\ results[1].strategies.PowerChange.signal = "Bullish"
    /\ results[2].strategies.PowerChange.signal = "Bearish"
    /\ DOMAIN results[2].strategies = {"PowerChange", "SpiderWeb"}

\* the input contracts that have no entry in the result mapping
MissingContracts == {ec \in PassedContracts : EntriesOf(ec) = {}}

\* C22: a contract is absent from the output only when its normalization
\* failed, and the outcome of the run carries a count of skipped contracts
\* equal to the number of input contracts missing from the result mapping
\* (the count is asked for here only of a run that omits a contract)
C22_OmissionsCounted ==
    OrchDone =>
        /\ \A ec \in MissingContracts :
               ProcessPositionData(exchange_files[ec[1]][ec[2]]) = None
        /\ MissingContracts # {} =>
               /\ "skipped" \in DOMAIN OrchReturn
               /\ OrchReturn.skipped = Cardinality(MissingContracts)

(***************************************************************************)
(* Properties of get_analysis_results_optimized                            *)
(***************************************************************************)

\* the function has returned
ParDone == par_return # Pending

\* the exchanges whose fetch ended the given way
EndedAs(kinds) == {e \in 1..Len(par_exchanges) : fetched[e].k \in kinds}

\* C23: an exchange whose fetch exceeds the timeout is treated like one
\* that returned no rows: it contributes no contracts, and the contracts of
\* every exchange whose fetch completed in time are in the returned
\* mapping (stated of the runs in which some exchange brought tables)
C23_LateExchangeLikeEmpty ==
    (ParDone /\ EndedAs({"late"}) # {} /\ EndedAs({"data"}) # {}) =>
        /\ par_return # None
        /\ \A e \in EndedAs({"data"}) :
               \A i \in 1..Len(fetched[e].sheets) :
                   \E j \in 1..Len(par_return.results) :
                       par_return.results[j].key = <<par_exchanges[e], i>>
        /\ \A j \in 1..Len(par_return.results) :
               \A e \in EndedAs({"late"}) :
                   par_return.results[j].key[1] # par_exchanges[e]

\* the runs in which the futures are yielded in the order of the list
\* exchanges, after the first n of them: results and successful_exchanges
RECURSIVE ListOrderRuns(_, _)

ListOrderRuns(f, n) ==
    IF n = 0 THEN {<<<<>>, 0>>}
    ELSE UNION {IF f[n].k = "data"
                THEN {<<res, run[2] + 1>> :
                         res \in AnalyzeSheets(run[1], par_exchanges[n],
                                               f[n].sheets, 1)}
                ELSE {run} :
                run \in ListOrderRuns(f, n - 1)}

\* what those runs return
ListOrderReturns(f) ==
    IF \E e \in 1..Len(par_exchanges) : f[e] = Late THEN {None}
    ELSE {IF run[2] = 0 THEN None ELSE Returned(run[1]) :
              run \in ListOrderRuns(f, Len(par_exchanges))}

\* a returned value as a mapping: its keys with the value under each
MappingOf(ret) ==
    [null    |-> ret = None,
     entries |-> IF ret = None THEN {}
                 ELSE {ret.results[j] : j \in 1..Len(ret.results)}]

C25_AlwaysAMapping ==
    (ParDone /\ EndedAs({"empty", "failed"}) = 1..Len(par_exchanges)) =>
        par_return = Returned(<<>>)

(***************************************************************************)
(* Properties of fetch_and_analyze                                         *)
(***************************************************************************)

\* a call of fetch_and_analyze has returned
FetchDone == call # Absent /\ OrchDone

\* C26: after any sequence of calls on the same data directory, the result
\* of fetch_and_analyze(d) holds only contracts of tables fetched for d
\* during that call; an exchange whose fetch fails or returns nothing in
\* the call contributes no contract, even if an earlier call stored a
\* table for it
C26_OnlyThisCallsTables ==
    FetchDone =>
        \A j \in 1..Len(results) :
            \E e \in call.fetched :
                /\ results[j].key[1] = exchanges[e]
                /\ data_dir[e].trade_date = call.trade_date

(***************************************************************************)
(* Properties of analyze_term_structure_with_prices                        *)
(***************************************************************************)

TermDone == structure_results # Pending

\* the table has its three columns and every close is a number or missing
NumericPrices ==
    /\ {"symbol", "close", "variety"} \subseteq price_data.columns
    /\ \A i \in 1..Len(price_data.rows) : price_data.rows[i].close # Str

\* the underlyings of the table
Underlyings == {price_data.rows[i].variety : i \in 1..Len(price_data.rows)}

\* the usable points of underlying v: its rows with a close > 0
UsablePoints(v) ==
    {i \in 1..Len(price_data.rows) :
        /\ price_data.rows[i].variety = v
        /\ "close" \in DOMAIN price_data.rows[i]
        /\ price_data.rows[i].close.k = "num"
        /\ price_data.rows[i].close.v > 0}

\* the arrangements of the rows S in contract-code order
CodeOrders(S) ==
    {p \in [1..Cardinality(S) -> S] :
        /\ \A i, j \in 1..Cardinality(S) : i # j => p[i] # p[j]
        /\ \A i \in 1..(Cardinality(S) - 1) :
               ~LexLess(price_data.rows[p[i + 1]].symbol,
                        price_data.rows[p[i]].symbol)}

\* the entries of the result for underlying v
LabelsOf(v) ==
    {i \in 1..Len(structure_results.results) :
        structure_results.results[i].variety = v}

\* C19: an underlying with at least 2 points is labelled back when its
\* closes, in contract-code order, fall at every step, contango when they
\* rise at every step, flat otherwise (an equal adjacent pair or a change
\* of direction); prices are numbers or missing
C19_StrictMonotoneLabel ==
    (TermDone /\ NumericPrices) =>
        \A v \in Underlyings :
            Cardinality(UsablePoints(v)) >= 2 =>
                /\ Cardinality(LabelsOf(v)) = 1
                /\ \A e \in LabelsOf(v) :
                       LET r == structure_results.results[e]
                       IN  /\ \E p \in CodeOrders(UsablePoints(v)) :
                                  /\ r.contracts =
                                         [i \in 1..Len(p) |-> price_data.rows[p[i]].symbol]
                                  /\ r.closes =
                                         [i \in 1..Len(p) |-> price_data.rows[p[i]].close.v]
                           /\ r.structure = "back" <=>
                                  \A i \in 1..(Len(r.closes) - 1) :
                                      r.closes[i] > r.closes[i + 1]
                           /\ r.structure = "contango" <=>
                                  \A i \in 1..(Len(r.closes) - 1) :
                                      r.closes[i] < r.closes[i + 1]
                           /\ r.structure = "flat" <=>
                                  \/ \E i \in 1..(Len(r.closes) - 1) :
                                         r.closes[i] = r.closes[i + 1]
                                  \/ \E i, j \in 1..(Len(r.closes) - 1) :
                                         /\ r.closes[i] < r.closes[i + 1]
                                         /\ r.closes[j] > r.closes[j + 1]

\* three contracts of one underlying, entered in another order than that of
\* their codes, were labelled back on the closes 3, 2, 1
C19_Witness ==
    /\ TermDone /\ NumericPrices
    /\ Len(price_data.rows) = 3
    /\ price_data.rows[1].symbol = <<2>>
    /\ Len(structure_results.results) = 1
    /\ structure_results.results[1].structure = "back"
    /\ structure_results.results[1].contracts = <<<<1>>, <<1, 0>>, <<2>>>>
    /\ structure_results.results[1].closes = <<3, 2, 1>>

\* underlying v has a price that is text
HasTextPrice(v) ==
    \E i \in 1..Len(price_data.rows) :
        /\ price_data.rows[i].variety = v
        /\ "close" \in DOMAIN price_data.rows[i]
        /\ price_data.rows[i].close = Str

\* C20: the call always returns a list, and an underlying with fewer than 2
\* usable points or with a non-numeric price has no entry in it
C20_NoLabelWithoutPoints ==
    TermDone =>
        /\ DOMAIN structure_results = {"results"}
        /\ \A i \in 1..Len(structure_results.results) :
               structure_results.results[i].structure
                   \in {"back", "contango", "flat"}
        /\ \A v \in Underlyings :
               (Cardinality(UsablePoints(v)) < 2 \/ HasTextPrice(v))
                   => LabelsOf(v) = {}

\* underlying A was labelled on two points while underlying B, with one
\* point, has no entry
C20_Witness ==
    /\ TermDone
    /\ Cardinality(UsablePoints("B")) = 1
    /\ Cardinality(UsablePoints("A")) = 2
    /\ LabelsOf("A") # {}
    /\ LabelsOf("B") = {}

\* C29: the label of an underlying depends only on its own rows: an
\* underlying whose own rows give at least 2 usable points and hold no
\* text keeps its one label whatever the rows of the other underlyings of
\* the table are, a corrupt (text) price among them included
C29_UnderlyingsIsolated ==
    (TermDone /\ {"symbol", "close", "variety"} \subseteq price_data.columns)
        => \A v \in Underlyings :
               (~HasTextPrice(v) /\ Cardinality(UsablePoints(v)) >= 2)
                   => Cardinality(LabelsOf(v)) = 1

\* C30: every point whose close is missing or <= 0 is removed before the
\* points are counted and tested: an underlying is labelled exactly when
\* at least 2 of its points remain, the label is that of the remaining
\* closes, and the returned contracts and closes are those points, of
\* equal length, with closes > 0 only, in ascending order of the contract
\* codes (prices are numbers or missing)
C30_FilteredBeforeLabel ==
    (TermDone /\ NumericPrices) =>
        \A v \in Underlyings :
            /\ LabelsOf(v) # {} <=> Cardinality(UsablePoints(v)) >= 2
            /\ \A e \in LabelsOf(v) :
                   LET r == structure_results.results[e]
                       n == Len(r.closes)
                   IN  /\ Len(r.contracts) = n
                       /\ n = Cardinality(UsablePoints(v))
                       /\ \A i \in 1..n : r.closes[i] > 0
                       /\ \A i \in 1..(n - 1) :
                              ~LexLess(r.contracts[i + 1], r.contracts[i])
                       /\ \E p \in CodeOrders(UsablePoints(v)) :
                              \A i \in 1..n :
                                  /\ r.contracts[i] = price_data.rows[p[i]].symbol
                                  /\ r.closes[i] = price_data.rows[p[i]].close.v
                       /\ r.structure =
                              IF \A i \in 1..(n - 1) : r.closes[i] > r.closes[i + 1]
                                  THEN "back"
                              ELSE IF \A i \in 1..(n - 1) : r.closes[i] < r.closes[i + 1]
                                  THEN "contango"
                              ELSE "flat"

\* three contracts of one underlying, the middle one without a usable
\* close (0 or missing): the label is contango, on the closes 1 and 2 of
\* the other two
C30_Witness ==
    /\ TermDone /\ NumericPrices
    /\ Len(price_data.rows) = 3
    /\ \E i \in 1..3 :
           /\ price_data.rows[i].symbol = <<1, 0>>
           /\ price_data.rows[i].close \in {Num(0), NaN}
    /\ Len(structure_results.results) = 1
    /\ structure_results.results[1].structure = "contango"
    /\ structure_results.results[1].contracts = <<<<1>>, <<2>>>>
    /\ structure_results.results[1].closes = <<1, 2>>

====
